---- MODULE Spec2Model ----
(***************************************************************************)
(* Verification model of the MLS Grid replication worker.                  *)
(*                                                                         *)
(* Part A  RateLimiter (lib/rate-limiter.ts): the API request series, the  *)
(*         promise-chain lock of waitForApiSlot, timers and the clock.     *)
(* Part B  runReplicationCycle (pipeline/replication-cycle.ts): run mode,  *)
(*         dedup set, page iteration, per-record processors, run records.  *)
(*                                                                         *)
(* Each part has its own specification; a specification leaves the other   *)
(* part's variables unchanged.                                             *)
(***************************************************************************)
EXTENDS Integers, Sequences, FiniteSets, TLC

VARIABLES
    \* ---- Part A: rate limiter ----
    now,          \* Date.now(), in ms
    apiRequests,  \* RateLimiter.apiRequests: sequence of timestamps
    apiSlotLock,  \* RateLimiter.apiSlotLock: the promise at the chain's tail
    pc,           \* per caller: position inside waitForApiSlot
    previous,     \* per caller: the promise it awaits (local `previous`)
    wakeAt,       \* per caller: time at which its setTimeout may fire
    slept,        \* per caller: whether this call has slept at least once
    lastCheckBy,  \* the caller that made the latest checkApiRequest / record
    \* ---- Part B: replication cycle ----
    resource,     \* the ResourceType whose loop is modelled
    feed,         \* the remote feed: key -> record (ModificationTimestamp, MlgCanView)
    feedNow,      \* the feed's clock: the timestamp given to a modification
    rows,         \* the resource's table: key -> row (modification_ts, mlg_can_view)
    runs,         \* replication_runs of the resource, in startedAt order
    cycle,        \* the locals of the runReplicationCycle call in progress
    faults,       \* number of failures the environment has injected so far
    observed,     \* per run, what an observer of the cycle has seen (not program state)
    \* ---- Part C: media bandwidth admission ----
    mNow,           \* Date.now(), in ms
    mediaDownloads, \* RateLimiter.mediaDownloads: sequence of (timestamp, bytes)
    mpc,            \* per downloader: position inside downloadMedia
    mWakeAt,        \* per downloader: time at which its setTimeout may fire
    mChecked,       \* per downloader: its latest checkMediaDownload, as an observer saw it
    mChecks,        \* number of checkMediaDownload calls so far (bounds the exploration)
    \* ---- Part D: startup ----
    spc,            \* position inside createScheduler().start()
    requestLog,     \* table replication_requests: the requested_at values
    mediaLog,       \* table media_downloads: rows (downloadedAt, bytes, status)
    recentRequests, \* local of start(): result of the request-log query
    recentMedia,    \* local of start(): result of the media-log query
    seededApi,      \* RateLimiter.apiRequests as start() leaves it
    seededMedia,    \* RateLimiter.mediaDownloads as start() leaves it
    initialized,    \* whether initializeFromHistory has been called
    admissions,     \* admissions granted so far: <<api, media>>
    \* ---- Part E: fetchPage ----
    fpc,            \* position inside fetchPage
    attempt429,     \* loop variable of fetchPage
    fNow,           \* Date.now() of the fetchPage clock
    requests,       \* the HTTP requests sent so far: their response status
    lastRequestAt,  \* when the latest request was sent
    probeGaps,      \* the times observed between one request and the next
    httpStatus,     \* local of the loop body
    errorMessage,   \* local of the loop body
    completion,     \* how the try block was left: what follows the finally
    replicationRequests, \* the request-log rows written by fetchPage
    logFaults,      \* request-log inserts that raised so far
    \* ---- Part F: processPropertyRecord ----
    ppc,            \* the statement processPropertyRecord is about to run
    raw,            \* parameter: the record being processed
    options,        \* parameter: [isInitialImport]
    existing,       \* local: the row loaded for the key
    db,             \* the tables, for one listing key
    r2Objects,      \* the stored media objects of the listing
    alerts,         \* the notifyIfNeeded calls made
    pStats,         \* the stats of the latest call
    pOutcome,       \* how the latest call ended
    before,         \* db, r2Objects and alerts when the latest call started,
                    \* and whether the call repeats the one before it
    upsertDone,     \* whether the listing upsert of the latest call completed
    processed,      \* number of calls so far
    stmtFaults,     \* statements that raised so far
    \* ---- Part G: media rows and the background downloader ----
    mediaTable,     \* the media rows, by media key
    running,        \* MediaDownloader.running
    activeDownloads,     \* MediaDownloader.activeDownloads
    remainingPauseMs,    \* MediaDownloader.rateLimitPauseUntil - Date.now(),
                         \* 0 once the pause is over
    currentPauseMs, \* MediaDownloader.currentPauseMs
    lpc,            \* where loop() stands
    pending,        \* loop(): the polled rows not yet started
    downloads,      \* the calls of downloadOne in flight, by media key
    rpc,            \* where recoverFailedMedia() stands
    failedRows,     \* recoverFailedMedia(): the selected rows not yet handled
    emptyBodies,    \* 200 answers with an empty body so far
    inlineCalls,    \* rows handled by downloadMediaInline so far
    downloadFailures, \* downloads of downloadOne that failed without a status
    \* ---- Part H: the scheduler ----
    isRunning,      \* createScheduler: isRunning
    completedRunExists, \* whether a completed run is stored at startup
    startPc,        \* where start() and the process stand
    importCycle,    \* runInitialImport: the cycle of each resource
    resourceStates, \* createScheduler: resourceStates
    loopPc,         \* where the runResourceLoop of each resource stands
    stopPc,         \* where stop() stands
    stopElapsed,    \* stop(): Date.now() - start
    lastCycleStart, \* the latest call of runReplicationCycle: for which
                    \* resource, and after what
    \* ---- Part I: the cleanup job ----
    listings,       \* properties: listing key -> row
    tableRows,      \* listing key -> the other tables holding rows of the key
    storedObjects,  \* listing key -> whether the object store holds media
                    \* objects of the key
    today,          \* Date.now(), in days
    cleanup         \* where the cleanup loop and runCleanupJob stand

rlVars == <<now, apiRequests, apiSlotLock, pc, previous, wakeAt, slept, lastCheckBy>>
cyVars == <<resource, feed, feedNow, rows, runs, cycle, faults, observed>>
mdVars == <<mNow, mediaDownloads, mpc, mWakeAt, mChecked, mChecks>>
suVars == <<spc, requestLog, mediaLog, recentRequests, recentMedia,
            seededApi, seededMedia, initialized, admissions>>
fpVars == <<fpc, attempt429, fNow, requests, lastRequestAt, probeGaps,
            httpStatus, errorMessage,
            completion, replicationRequests, logFaults>>
ppVars == <<ppc, raw, options, existing, db, r2Objects, alerts, pStats,
            pOutcome, before, upsertDone, processed, stmtFaults>>
dlVars == <<mediaTable, running, activeDownloads, remainingPauseMs,
            currentPauseMs, lpc, pending, downloads, rpc, failedRows,
            emptyBodies, inlineCalls, downloadFailures>>
dlRest == <<mediaTable, activeDownloads, remainingPauseMs, currentPauseMs,
            lpc, pending, downloads, rpc, failedRows, emptyBodies,
            inlineCalls, downloadFailures>>
scVars == <<isRunning, completedRunExists, startPc, importCycle,
            resourceStates, loopPc, stopPc, stopElapsed, lastCycleStart>>
clVars == <<listings, tableRows, storedObjects, today, cleanup>>
vars == <<rlVars, cyVars, mdVars, suVars, fpVars, ppVars, dlVars, scVars,
          clVars>>

\* What the actions of one part leave unchanged
exceptRL == <<cyVars, mdVars, suVars, fpVars, ppVars, dlVars, scVars,
             clVars>>
exceptCy == <<rlVars, mdVars, suVars, fpVars, ppVars, dlVars, scVars,
             clVars>>
exceptMd == <<rlVars, cyVars, suVars, fpVars, ppVars, dlVars, scVars,
             clVars>>
exceptSu == <<rlVars, cyVars, mdVars, fpVars, ppVars, dlVars, scVars,
             clVars>>
exceptFp == <<rlVars, cyVars, mdVars, suVars, ppVars, dlVars, scVars,
             clVars>>
exceptPp == <<rlVars, cyVars, mdVars, suVars, fpVars, dlVars, scVars,
             clVars>>
exceptDl == <<rlVars, cyVars, mdVars, suVars, fpVars, ppVars, scVars,
             clVars>>
exceptSc == <<rlVars, cyVars, mdVars, suVars, fpVars, ppVars, dlVars,
             clVars>>
exceptCl == <<rlVars, cyVars, mdVars, suVars, fpVars, ppVars, dlVars, scVars>>

(***************************************************************************)
(* Part A.  Rate limiter                                                   *)
(***************************************************************************)

\* Model bounds
NumCallers == 3
MaxCalls == 4
MaxNow == 2100

\* Program constants
ONE_SECOND == 1000
ONE_HOUR == 3600000
ONE_DAY == 86400000
PerSecondHard == 2
PerHourHard == 7200
PerDayHard == 40000
PerHourSoft == 6000
PerDaySoft == 35000
SlotBufferMs == 50
SoftSecondPauseMs == 200
SoftHourPauseMs == 2000
SoftDayPauseMs == 5000

Callers == 1..NumCallers

\* Array.prototype.filter on a sequence of timestamps
FilterNewer(reqs, cutoff) ==
    LET Newer(timestamp) == timestamp > cutoff
    IN  SelectSeq(reqs, Newer)

\* Math.min(...list) of a non-empty sequence
RECURSIVE MinOf(_)
MinOf(reqs) ==
    IF Len(reqs) = 1 THEN reqs[1]
    ELSE LET m == MinOf(Tail(reqs)) IN IF reqs[1] < m THEN reqs[1] ELSE m

\* pruneApiRequests: keep the entries of the last 24 h
PruneApiRequests(reqs, t) == FilterNewer(reqs, t - ONE_DAY)

\* A faulty variant of the cutoff below: the window looked at is half a second
SecondWindowStartShort(t) == t - ONE_SECOND \div 2

\* The cutoff of the 1-second window of checkApiRequest: now - ONE_SECOND
SecondWindowStart(t) == t - ONE_SECOND

\* The hard per-second test of checkApiRequest
SecondWindowFull(lastSecond) == Len(lastSecond) >= PerSecondHard

\* A faulty variant of the test below: the hourly soft cap is not looked at
HourSoftCapIgnored(lastHour) == FALSE

\* The soft hourly test of checkApiRequest
HourSoftCapReached(lastHour) == Len(lastHour) >= PerHourSoft

\* checkApiRequest on an already pruned series: the wait in ms, 0 = proceed.
\* The per-second soft cap is 1.5 requests: length >= 1.5 is 2 * length >= 3.
CheckApiRequest(reqs, t) ==
    LET lastSecond == FilterNewer(reqs, SecondWindowStart(t))
        lastHour   == FilterNewer(reqs, t - ONE_HOUR)
        lastDay    == FilterNewer(reqs, t - ONE_DAY)
    IN  IF SecondWindowFull(lastSecond)
          THEN MinOf(lastSecond) + ONE_SECOND - t + SlotBufferMs
        ELSE IF Len(lastHour) >= PerHourHard THEN ONE_HOUR
        ELSE IF Len(lastDay) >= PerDayHard THEN ONE_HOUR
        ELSE IF 2 * Len(lastSecond) >= 3 THEN SoftSecondPauseMs
        ELSE IF HourSoftCapReached(lastHour) THEN SoftHourPauseMs
        ELSE IF Len(lastDay) >= PerDaySoft THEN SoftDayPauseMs
        ELSE 0

\* recordApiRequest
RecordApiRequest(reqs, t) == Append(reqs, t)

\* A lock promise is named by the caller that will resolve it; every resolved
\* promise is written Resolved (the initial Promise.resolve() included).
Resolved == 0

RLInit ==
    /\ now = 0
    /\ apiRequests = <<>>
    /\ apiSlotLock = Resolved
    /\ pc = [c \in Callers |-> "idle"]
    /\ previous = [c \in Callers |-> Resolved]
    /\ wakeAt = [c \in Callers |-> 0]
    /\ slept = [c \in Callers |-> FALSE]
    /\ lastCheckBy = 0

InFlight == {c \in Callers : pc[c] \in {"awaitPrevious", "sleeping"}}

\* The entries recorded by recordApiRequest since the start (at time 0); the
\* entries loaded by initializeFromHistory are older than the start
RecordedSinceStart(reqs) == FilterNewer(reqs, -1)

\* waitForApiSlot up to `await previous`: chain onto the lock
Enter(c) ==
    /\ pc[c] = "idle"
    /\ Len(RecordedSinceStart(apiRequests)) + Cardinality(InFlight) < MaxCalls
    /\ previous' = [previous EXCEPT ![c] = apiSlotLock]
    /\ apiSlotLock' = c
    /\ pc' = [pc EXCEPT ![c] = "awaitPrevious"]
    /\ UNCHANGED <<now, apiRequests, wakeAt, slept, lastCheckBy>>
    /\ UNCHANGED exceptRL

\* A faulty variant of the test below: the caller does not wait for the
\* previous caller (waitForApiSlot without the promise chain)
LockIgnored(c) == TRUE

\* The caller may run past `await previous`
LockFree(c) == previous[c] = Resolved

\* One run of the check loop's body for caller c: prune, check, then either
\* start a sleep or record the request and release the lock (finally).
CheckAndProceed(c) ==
    LET pruned == PruneApiRequests(apiRequests, now)
        waitMs == CheckApiRequest(pruned, now)
    IN  /\ lastCheckBy' = c
        /\ IF waitMs > 0
             THEN /\ apiRequests' = pruned
                  /\ wakeAt' = [wakeAt EXCEPT ![c] = now + waitMs]
                  /\ slept' = [slept EXCEPT ![c] = TRUE]
                  /\ pc' = [pc EXCEPT ![c] = "sleeping"]
                  /\ previous' = [previous EXCEPT ![c] = Resolved]
                  /\ UNCHANGED apiSlotLock
             ELSE /\ apiRequests' = RecordApiRequest(pruned, now)
                  /\ apiSlotLock' = IF apiSlotLock = c THEN Resolved ELSE apiSlotLock
                  /\ previous' = [d \in Callers |->
                                    IF d = c \/ previous[d] = c THEN Resolved
                                    ELSE previous[d]]
                  /\ wakeAt' = [wakeAt EXCEPT ![c] = 0]
                  /\ pc' = [pc EXCEPT ![c] = "done"]
                  /\ UNCHANGED slept
        /\ UNCHANGED now
        /\ UNCHANGED exceptRL

\* `await previous` completes and the first check runs
Acquire(c) ==
    /\ pc[c] = "awaitPrevious"
    /\ LockFree(c)
    /\ CheckAndProceed(c)

\* The sleep's timer fires (no earlier than asked for) and the check is repeated
Wake(c) ==
    /\ pc[c] = "sleeping"
    /\ now >= wakeAt[c]
    /\ CheckAndProceed(c)

\* The caller returns from waitForApiSlot and may call it again
Return(c) ==
    /\ pc[c] = "done"
    /\ pc' = [pc EXCEPT ![c] = "idle"]
    /\ slept' = [slept EXCEPT ![c] = FALSE]
    /\ UNCHANGED <<now, apiRequests, apiSlotLock, previous, wakeAt, lastCheckBy>>
    /\ UNCHANGED exceptRL

\* The clock advances
TickSteps == {ONE_SECOND \div 2, ONE_SECOND + SlotBufferMs}

Tick ==
    /\ \E d \in TickSteps :
         /\ now + d <= MaxNow
         /\ now' = now + d
    /\ UNCHANGED <<apiRequests, apiSlotLock, pc, previous, wakeAt, slept, lastCheckBy>>
    /\ UNCHANGED exceptRL

RLNext ==
    \/ \E c \in Callers : Enter(c)
    \/ \E c \in Callers : Acquire(c)
    \/ \E c \in Callers : Wake(c)
    \/ \E c \in Callers : Return(c)
    \/ Tick


(***************************************************************************)
(* Claims about the rate limiter                                           *)
(***************************************************************************)

\* The events of the series that lie in the 1-second window ending at time t,
\* the window checkApiRequest looks at: t - 1 s < timestamp <= t.
EventsInSecondEndingAt(t) ==
    {j \in 1..Len(apiRequests) :
        apiRequests[j] > t - ONE_SECOND /\ apiRequests[j] <= t}

\* C1: whatever the number of concurrent callers of waitForApiSlot and the
\* interleaving of their sleeps and wake-ups, no sliding 1-second window holds
\* more than 2 recorded API events.
C1_AtMostTwoPerSecond ==
    \A i \in 1..Len(apiRequests) :
        Cardinality(EventsInSecondEndingAt(apiRequests[i])) <= 2

\* C1 witness: a caller found the window full, slept, woke and recorded a third
\* event while other callers were using the limiter.
C1_Witness ==
    \E c \in Callers :
        /\ pc[c] = "done"
        /\ slept[c]
        /\ Len(apiRequests) >= 3
        /\ apiRequests[Len(apiRequests)] = now

NumKeys == 2
MaxTs == 2
MaxRuns == 3
PageSize == 1
MaxFaults == 1

Keys == 1..NumKeys
Resources == {"Property", "Member", "Office", "OpenHouse", "Lookup"}

\* A null Date (hwm, hwmEnd); timestamps are 1..MaxTs
Null == 0

NoRecord == [present |-> FALSE, ts |-> Null, canView |-> FALSE]
NoRow == [present |-> FALSE, modTs |-> Null, canView |-> FALSE]

Max2(a, b) == IF a >= b THEN a ELSE b

RECURSIVE MaxOfSet(_)
MaxOfSet(S) ==
    IF S = {} THEN Null
    ELSE LET x == CHOOSE y \in S : TRUE IN Max2(x, MaxOfSet(S \ {x}))

\* Indexes of the runs with one of the given statuses
RunsWithStatus(rs, statuses) == {i \in 1..Len(rs) : rs[i].status \in statuses}

\* A faulty variant of the selection below: the latest run of the resource is
\* used whatever its status
LatestRunAnyStatus(rs, res) ==
    {i \in 1..Len(rs) : rs[i].resourceType = res}

\* determineRunMode's WHERE clause: the resource's completed or partial runs
CandidateRuns(rs, res) ==
    {i \in RunsWithStatus(rs, {"completed", "partial"}) : rs[i].resourceType = res}

\* determineRunMode: ORDER BY started_at DESC LIMIT 1, then the hwmEnd test
DetermineRunMode(rs, res) ==
    LET cands == CandidateRuns(rs, res)
    IN  IF cands = {} \/ rs[MaxOfSet(cands)].hwmEnd = Null
          THEN [isInitialImport |-> TRUE, hwm |-> Null]
          ELSE [isInitialImport |-> FALSE, hwm |-> rs[MaxOfSet(cands)].hwmEnd]

\* buildDedupSet: the keys stored with modification_ts = hwm; only Property,
\* Member and Office have a case, every other resource gets the empty set
BuildDedupSet(res, hwm, rws) ==
    IF res \in {"Property", "Member", "Office"}
      THEN {k \in Keys : rws[k].present /\ rws[k].modTs = hwm}
      ELSE {}

\* The $filter of buildInitialImportUrl / buildReplicationUrl(.., useGe = true)
MatchesFilter(rec, isInitialImport, hwm) ==
    /\ rec.present
    /\ IF isInitialImport THEN rec.canView ELSE rec.ts >= hwm

\* The feed's answer to the query: the matching records in ascending
\* ModificationTimestamp order (ties by key), as a sequence
RECURSIVE SortedRecords(_, _)
SortedRecords(fd, ks) ==
    IF ks = {} THEN <<>>
    ELSE LET k == CHOOSE x \in ks :
                     \A y \in ks : \/ fd[x].ts < fd[y].ts
                                   \/ (fd[x].ts = fd[y].ts /\ x <= y)
         IN  <<[key |-> k, ts |-> fd[k].ts, canView |-> fd[k].canView]>>
                 \o SortedRecords(fd, ks \ {k})

QueryFeed(fd, isInitialImport, hwm) ==
    SortedRecords(fd, {k \in Keys : MatchesFilter(fd[k], isInitialImport, hwm)})

FirstN(sq, n) == SubSeq(sq, 1, IF Len(sq) < n THEN Len(sq) ELSE n)
DropN(sq, n) == SubSeq(sq, (IF Len(sq) < n THEN Len(sq) ELSE n) + 1, Len(sq))

IdleCycle ==
    [pc |-> "idle", isInitialImport |-> FALSE, hwm |-> Null, hwmEnd |-> Null,
     dedupNull |-> TRUE, dedupSet |-> {}, url |-> FALSE, todo |-> <<>>,
     page |-> <<>>, totalRecords |-> 0, inserted |-> 0, updated |-> 0,
     deleted |-> 0, status |-> "completed"]

NothingObserved ==
    [received |-> {}, committed |-> {}, written |-> {}, insertedKeys |-> {},
     processedKeys |-> {}, recordRaised |-> FALSE, fetchRaised |-> FALSE,
     exhausted |-> FALSE, crashed |-> FALSE, rowsChanged |-> FALSE,
     dedupAtStart |-> {},
     feedAtStart |-> [k \in Keys |-> NoRecord]]

\* A run record another resource's loop has left in replication_runs
OtherResource(res) == IF res = "Property" THEN "Member" ELSE "Property"

ForeignRun(res) ==
    [resourceType |-> OtherResource(res), runMode |-> "initial_import",
     status |-> "completed", hwmStart |-> Null, hwmEnd |-> 1,
     totalRecords |-> 1, inserted |-> 1, updated |-> 0, deleted |-> 0]

\* The runs of the modelled resource
OwnRuns == {i \in 1..Len(runs) : runs[i].resourceType = resource}

\* The resource's table is empty and it has no run yet; replication_runs may
\* hold a run of another resource
CyInit ==
    /\ resource \in Resources
    /\ feed = [k \in Keys |-> NoRecord]
    /\ feedNow = 1
    /\ rows = [k \in Keys |-> NoRow]
    /\ runs \in {<<>>, <<ForeignRun(resource)>>}
    /\ cycle = IdleCycle
    /\ faults = 0
    /\ observed = [i \in 1..Len(runs) |-> NothingObserved]

\* ---- the feed (environment) ----

\* The feed answers a cycle's query from its state when the cycle starts, so a
\* change made while a cycle runs shows exactly as one made right after it:
\* the feed's steps are taken between cycles (and while a cycle is still to come).
FeedMayChange == cycle.pc = "idle" /\ Cardinality(OwnRuns) < MaxRuns

\* A record is created or modified in the feed: it gets the feed's current
\* time as ModificationTimestamp, which never decreases for a key
FeedModify(k, cv) ==
    /\ FeedMayChange
    /\ ~feed[k].present \/ feed[k].ts < feedNow
    /\ feed' = [feed EXCEPT ![k] = [present |-> TRUE, ts |-> feedNow, canView |-> cv]]
    /\ UNCHANGED <<resource, feedNow, rows, runs, cycle, faults, observed>>
    /\ UNCHANGED exceptCy

FeedTick ==
    /\ FeedMayChange
    /\ feedNow < MaxTs
    /\ feedNow' = feedNow + 1
    /\ UNCHANGED <<resource, feed, rows, runs, cycle, faults, observed>>
    /\ UNCHANGED exceptCy

\* ---- runReplicationCycle ----

\* A faulty variant of the initialisation below: hwmEnd starts as null
InitialHwmEndNull(hwm) == Null

\* Line 82: the cycle's hwmEnd starts as its hwm
InitialHwmEnd(hwm) == hwm

\* Lines 47-102: determine the mode, insert the run record, build the dedup
\* set and the URL.  The feed answers the query from its state at this time.
StartCycle ==
    /\ cycle.pc = "idle"
    /\ Cardinality(OwnRuns) < MaxRuns
    /\ LET m == DetermineRunMode(runs, resource)
           dedupOn == m.hwm # Null /\ ~m.isInitialImport
           dedup == IF dedupOn THEN BuildDedupSet(resource, m.hwm, rows) ELSE {}
       IN  /\ runs' = Append(runs,
                 [resourceType |-> resource,
                  runMode |-> IF m.isInitialImport THEN "initial_import" ELSE "replication",
                  status |-> "running", hwmStart |-> m.hwm, hwmEnd |-> Null,
                  totalRecords |-> 0, inserted |-> 0, updated |-> 0, deleted |-> 0])
           /\ cycle' = [IdleCycle EXCEPT
                  !.pc = "iterating", !.isInitialImport = m.isInitialImport,
                  !.hwm = m.hwm, !.hwmEnd = InitialHwmEnd(m.hwm),
                  !.dedupNull = ~dedupOn, !.dedupSet = dedup,
                  !.url = TRUE,
                  !.todo = QueryFeed(feed, m.isInitialImport, m.hwm)]
           /\ observed' = Append(observed,
                 [NothingObserved EXCEPT !.dedupAtStart = dedup, !.feedAtStart = feed])
    /\ UNCHANGED <<resource, feed, feedNow, rows, faults>>
    /\ UNCHANGED exceptCy

\* ---- the per-record processors ----
\* Each gives the table after the record's writes, the stats it returns and
\* whether it wrote a row carrying the record's ModificationTimestamp.

Stats(i, u, d) == [inserted |-> i, updated |-> u, deleted |-> d]

UpsertRow(rws, rec) ==
    [rws EXCEPT ![rec.key] = [present |-> TRUE, modTs |-> rec.ts, canView |-> TRUE]]

\* processPropertyRecord with handleSoftDelete
ProcessPropertyRecord(rws, rec) ==
    IF ~rec.canView
      THEN IF ~rws[rec.key].present
             THEN [rows |-> rws, stats |-> Stats(0, 0, 1), wroteTs |-> FALSE]
             ELSE [rows |-> [rws EXCEPT ![rec.key] =
                               [present |-> TRUE, modTs |-> rec.ts, canView |-> FALSE]],
                   stats |-> Stats(0, 0, 1), wroteTs |-> TRUE]
      ELSE [rows |-> UpsertRow(rws, rec),
            stats |-> IF rws[rec.key].present THEN Stats(0, 1, 0) ELSE Stats(1, 0, 0),
            wroteTs |-> TRUE]

\* processMemberRecord / processOfficeRecord: the soft-hide UPDATE sets
\* mlgCanView, deletedAt and updatedAt only
ProcessMemberRecord(rws, rec) ==
    IF ~rec.canView
      THEN [rows |-> IF rws[rec.key].present
                       THEN [rws EXCEPT ![rec.key].canView = FALSE]
                       ELSE rws,
            stats |-> Stats(0, 0, 1), wroteTs |-> FALSE]
      ELSE [rows |-> UpsertRow(rws, rec),
            stats |-> IF rws[rec.key].present THEN Stats(0, 1, 0) ELSE Stats(1, 0, 0),
            wroteTs |-> TRUE]

\* processOpenHouseRecord: hidden records are hard-deleted; inserted = 1 always
ProcessOpenHouseRecord(rws, rec) ==
    IF ~rec.canView
      THEN [rows |-> [rws EXCEPT ![rec.key] = NoRow],
            stats |-> Stats(0, 0, 1), wroteTs |-> FALSE]
      ELSE [rows |-> UpsertRow(rws, rec), stats |-> Stats(1, 0, 0), wroteTs |-> TRUE]

\* processLookupRecord: inserted = 1 always
ProcessLookupRecord(rws, rec) ==
    IF ~rec.canView
      THEN [rows |-> IF rws[rec.key].present
                       THEN [rws EXCEPT ![rec.key].canView = FALSE]
                       ELSE rws,
            stats |-> Stats(0, 0, 1), wroteTs |-> FALSE]
      ELSE [rows |-> UpsertRow(rws, rec), stats |-> Stats(1, 0, 0), wroteTs |-> TRUE]

\* processRecord: route by resource type
ProcessRecordFor(res, rws, rec) ==
    CASE res = "Property"  -> ProcessPropertyRecord(rws, rec)
      [] res = "Member"    -> ProcessMemberRecord(rws, rec)
      [] res = "Office"    -> ProcessMemberRecord(rws, rec)
      [] res = "OpenHouse" -> ProcessOpenHouseRecord(rws, rec)
      [] res = "Lookup"    -> ProcessLookupRecord(rws, rec)

\* Whether the processor has statements left that can raise once the row is
\* written: Property (raw archive, rooms, unit types, media, status history,
\* alert hook) and Member / Office (media rows).  The OpenHouse and Lookup
\* processors and the Member / Office soft-hide end with the row's write.
CanRaiseAfterWrite(res, rws, rec) ==
    \/ res = "Property" /\ (rec.canView \/ rws[rec.key].present)
    \/ res \in {"Member", "Office"} /\ rec.canView

\* A faulty variant of the HWM tracking below: the timestamp is taken into
\* hwmEnd whether or not the processor raised
TrackHwmAlways(hwmEnd, ts, returned) ==
    IF hwmEnd = Null \/ ts > hwmEnd THEN ts ELSE hwmEnd

\* Lines 127-134, inside the try: hwmEnd advances only after processRecord
\* has returned
TrackHwm(hwmEnd, ts, returned) ==
    IF returned /\ (hwmEnd = Null \/ ts > hwmEnd) THEN ts ELSE hwmEnd

\* A faulty variant of the status below: any raise is reported as failed
StatusOnRaiseAlwaysFailed(totalRecords) == "failed"

\* Line 158: the status after the page iteration raised
StatusOnRaise(totalRecords) == IF totalRecords > 0 THEN "partial" ELSE "failed"

\* The for-await loop ends when the last page has been worked through
AfterRecord(cy) ==
    IF cy.page = <<>> /\ ~cy.url THEN [cy EXCEPT !.pc = "finalize"] ELSE cy

\* The observation of the run in progress, and its replacement
CurrentObserved == observed[Len(observed)]

ObserveCurrent(o) == [observed EXCEPT ![Len(observed)] = o]

\* fetchAllPages yields the next page
FetchPageOk ==
    /\ cycle.pc = "iterating"
    /\ cycle.page = <<>>
    /\ cycle.url
    /\ LET pg == FirstN(cycle.todo, PageSize)
           rest == DropN(cycle.todo, PageSize)
           next == AfterRecord([cycle EXCEPT !.page = pg, !.todo = rest,
                                             !.url = (rest # <<>>)])
           got(o) == [o EXCEPT !.received = @ \cup {<<pg[i].key, pg[i].ts>> : i \in 1..Len(pg)},
                               !.exhausted = (next.pc = "finalize")]
       IN  /\ cycle' = next
           /\ observed' = ObserveCurrent(got(CurrentObserved))
    /\ UNCHANGED <<resource, feed, feedNow, rows, runs, faults>>
    /\ UNCHANGED exceptCy

\* fetchPage raises (ApiError, RateLimited after the probes, transport error):
\* the catch block sets the status
FetchPageRaise ==
    /\ cycle.pc = "iterating"
    /\ cycle.page = <<>>
    /\ cycle.url
    /\ faults < MaxFaults
    /\ faults' = faults + 1
    /\ cycle' = [cycle EXCEPT !.status = StatusOnRaise(cycle.totalRecords),
                              !.pc = "finalize"]
    /\ LET got(o) == [o EXCEPT !.fetchRaised = TRUE] IN observed' = ObserveCurrent(got(CurrentObserved))
    /\ UNCHANGED <<resource, feed, feedNow, rows, runs>>
    /\ UNCHANGED exceptCy

\* One iteration of the record loop (lines 106-142): the dedup check, then
\* processRecord, which returns or raises before or after its row write
ProcessRecord ==
    /\ cycle.pc = "iterating"
    /\ cycle.page # <<>>
    /\ LET rec == Head(cycle.page)
           popped == [cycle EXCEPT !.page = Tail(cycle.page)]
       IN  IF ~cycle.dedupNull /\ rec.key \in cycle.dedupSet
             THEN LET next == AfterRecord([popped EXCEPT !.dedupSet = @ \ {rec.key}])
                      got(o) == [o EXCEPT !.exhausted = (next.pc = "finalize")]
                  IN  /\ cycle' = next
                      /\ observed' = ObserveCurrent(got(CurrentObserved))
                      /\ UNCHANGED <<rows, faults>>
             ELSE LET cleared == [popped EXCEPT
                                    !.dedupNull = @ \/ cycle.dedupSet = {}]
                      r == ProcessRecordFor(resource, rows, rec)
                  IN  \E outcome \in {"returns", "raisesBeforeWrite", "raisesAfterWrite"} :
                        /\ outcome = "raisesAfterWrite" =>
                               CanRaiseAfterWrite(resource, rows, rec)
                        /\ outcome # "returns" => faults < MaxFaults
                        /\ faults' = IF outcome = "returns" THEN faults ELSE faults + 1
                        /\ rows' = IF outcome = "raisesBeforeWrite" THEN rows ELSE r.rows
                        /\ cycle' = AfterRecord(
                               IF outcome = "returns"
                                 THEN [cleared EXCEPT
                                         !.inserted = @ + r.stats.inserted,
                                         !.updated = @ + r.stats.updated,
                                         !.deleted = @ + r.stats.deleted,
                                         !.totalRecords = @ + 1,
                                         !.hwmEnd = TrackHwm(@, rec.ts, TRUE)]
                                 ELSE [cleared EXCEPT
                                         !.hwmEnd = TrackHwm(@, rec.ts, FALSE)])
                        /\ LET got(o) ==
                                 [o EXCEPT
                                    !.processedKeys = @ \cup {rec.key},
                                    !.committed = IF outcome = "returns"
                                                    THEN @ \cup {<<rec.key, rec.ts>>} ELSE @,
                                    !.insertedKeys = IF outcome = "returns" /\ r.stats.inserted = 1
                                                       THEN @ \cup {rec.key} ELSE @,
                                    !.written = IF outcome # "raisesBeforeWrite" /\ r.wroteTs
                                                  THEN @ \cup {<<rec.key, rec.ts>>} ELSE @,
                                    !.recordRaised = @ \/ outcome # "returns",
                                    !.rowsChanged = @ \/ (outcome # "raisesBeforeWrite"
                                                            /\ (r.wroteTs \/ r.rows # rows)),
                                    !.exhausted = (cycle'.pc = "finalize")]
                           IN observed' = ObserveCurrent(got(CurrentObserved))
    /\ UNCHANGED <<resource, feed, feedNow, runs>>
    /\ UNCHANGED exceptCy

\* Lines 163-176: the run record is updated with the outcome
Finalize ==
    /\ cycle.pc = "finalize"
    /\ runs' = [runs EXCEPT ![Len(runs)] =
                  [@ EXCEPT !.status = cycle.status, !.hwmEnd = cycle.hwmEnd,
                            !.totalRecords = cycle.totalRecords,
                            !.inserted = cycle.inserted, !.updated = cycle.updated,
                            !.deleted = cycle.deleted]]
    /\ cycle' = IdleCycle
    /\ UNCHANGED <<resource, feed, feedNow, rows, faults, observed>>
    /\ UNCHANGED exceptCy

\* The process is killed while a cycle is in progress; after the restart the
\* scheduler is free to start the next cycle.  The run record stays as it is.
Crash ==
    /\ cycle.pc # "idle"
    /\ faults < MaxFaults
    /\ faults' = faults + 1
    /\ cycle' = IdleCycle
    /\ LET got(o) == [o EXCEPT !.crashed = TRUE] IN observed' = ObserveCurrent(got(CurrentObserved))
    /\ UNCHANGED <<resource, feed, feedNow, rows, runs>>
    /\ UNCHANGED exceptCy

CyNext ==
    \/ \E k \in Keys, cv \in BOOLEAN : FeedModify(k, cv)
    \/ FeedTick
    \/ StartCycle
    \/ FetchPageOk
    \/ FetchPageRaise
    \/ ProcessRecord
    \/ Finalize
    \/ Crash

(***************************************************************************)
(* Claims about the replication cycle                                      *)
(*                                                                         *)
(* observed[i] records what run i did: the (key, timestamp) pairs it       *)
(* received, those whose processing returned (committed), those whose row  *)
(* write carried the timestamp (written), the keys it counted as inserted, *)
(* the keys it handed to a processor, and how it ended.                    *)
(***************************************************************************)

Finalized(i) == runs[i].status \in {"completed", "partial", "failed"}

TsOf(S) == {c[2] : c \in S}

\* Pairs of successive cycles of the modelled resource, named by the later one
Successive == {j \in 2..Len(runs) : (j - 1) \in OwnRuns /\ j \in OwnRuns}

Visible(fd, k) == fd[k].present /\ fd[k].canView

\* C2: a cycle that started at hwmStart = T0 and was killed by a process crash
\* after committing records up to T2 > T0 is followed by a cycle in replication
\* mode with hwm = T2 whose dedup set is the committed keys with
\* ModificationTimestamp = T2.
C2_CrashResumesAtLastCommit ==
    \A j \in Successive :
        LET p == j - 1
            T0 == runs[p].hwmStart
            T2 == MaxOfSet(TsOf(observed[p].committed))
        IN  (observed[p].crashed /\ T0 # Null /\ T2 > T0) =>
                /\ runs[j].runMode = "replication"
                /\ runs[j].hwmStart = T2
                /\ observed[j].dedupAtStart =
                       {c[1] : c \in {d \in observed[p].committed : d[2] = T2}}

\* C3: two visible records A and B share ModificationTimestamp = HWM and a
\* partial cycle committed only A: the next cycle (ge filter and dedup set),
\* when it completes without a record error, has committed B and has not
\* processed A again.
C3_ResumeCommitsOnlyTheMissing ==
    \A j \in Successive : \A a, b \in Keys :
        LET p == j - 1
            T == runs[j].hwmStart
            fd == observed[j].feedAtStart
        IN  ( /\ a # b
              /\ runs[p].status = "partial"
              /\ runs[j].status = "completed"
              /\ ~observed[j].recordRaised
              /\ runs[j].runMode = "replication"
              /\ Visible(fd, a) /\ fd[a].ts = T
              /\ Visible(fd, b) /\ fd[b].ts = T
              /\ <<a, T>> \in observed[p].committed
              /\ \A q \in 1..p : <<b, T>> \notin observed[q].committed )
            => /\ a \notin observed[j].processedKeys
               /\ <<b, T>> \in observed[j].committed

\* C4: across an interrupted (partial) cycle and the cycle that resumes from
\* its hwmEnd and completes without a record error, every visible feed record
\* at or above the resumed HWM that no earlier cycle committed is committed by
\* the resumed cycle, and no key is counted as inserted in both runs.
C4_ResumeLosesAndDoublesNothing ==
    \A j \in Successive :
        LET p == j - 1
            fd == observed[j].feedAtStart
        IN  ( /\ runs[p].status = "partial"
              /\ runs[j].status = "completed"
              /\ ~observed[j].recordRaised
              /\ runs[j].runMode = "replication" )
            => /\ \A k \in Keys :
                    ( /\ Visible(fd, k)
                      /\ fd[k].ts >= runs[j].hwmStart
                      /\ \A q \in 1..p : <<k, fd[k].ts>> \notin observed[q].committed )
                    => <<k, fd[k].ts>> \in observed[j].committed
               /\ observed[p].insertedKeys \cap observed[j].insertedKeys = {}

C6_WrittenRowsNotAboveHwmEnd ==
    \A i \in OwnRuns :
        (resource = "Property" /\ Finalized(i) /\ runs[i].hwmEnd # Null) =>
            \A w \in observed[i].written : w[2] <= runs[i].hwmEnd

C8_ModeFromLatestCompletedOrPartial ==
    \A j \in OwnRuns :
        LET cands == {i \in 1..(j - 1) :
                         /\ runs[i].resourceType = runs[j].resourceType
                         /\ runs[i].status \in {"completed", "partial"}}
            last == MaxOfSet(cands)
        IN  IF cands = {} \/ runs[last].hwmEnd = Null
              THEN runs[j].runMode = "initial_import" /\ runs[j].hwmStart = Null
              ELSE runs[j].runMode = "replication"
                     /\ runs[j].hwmStart = runs[last].hwmEnd

\* C8 witness: a cycle started in replication mode although the run just
\* before it is still running or failed: it took the hwmEnd of an older run.
C8_Witness ==
    \E j \in Successive :
        /\ runs[j - 1].status \in {"running", "failed"}
        /\ runs[j].runMode = "replication"
        /\ \E i \in 1..(j - 2) : runs[j].hwmStart = runs[i].hwmEnd

\* C9: when nothing has changed in the feed since a cycle completed, the next
\* cycle at the same HWM has totalRecords = inserted = updated = deleted = 0
\* and changes no stored row.  Stated for feeds whose records are all
\* visible and for cycles without record errors.
C9_IdleCycleDoesNothing ==
    \A j \in Successive :
        LET p == j - 1 IN
        ( /\ runs[p].status = "completed"
          /\ ~observed[p].recordRaised
          /\ runs[j].status = "completed"
          /\ ~observed[j].recordRaised
          /\ observed[j].feedAtStart = observed[p].feedAtStart
          /\ \A k \in Keys : observed[j].feedAtStart[k].present =>
                               observed[j].feedAtStart[k].canView
          /\ runs[p].hwmEnd # Null
          /\ runs[j].hwmStart = runs[p].hwmEnd )
        => /\ runs[j].totalRecords = 0
           /\ runs[j].inserted = 0
           /\ runs[j].updated = 0
           /\ runs[j].deleted = 0
           /\ ~observed[j].rowsChanged

(***************************************************************************)
(* Part C.  Media bandwidth admission                                      *)
(***************************************************************************)

\* Bounds
NumDownloaders == 2
MaxDownloadUnits == 4
MaxMediaEntries == 3
MaxMediaChecks == 6
MaxMediaNow == 7300000

\* Bytes are counted in units of half a GiB: the default caps
\* WORKER_MEDIA_BANDWIDTH_HARD_CAP_GB = 4 and ..._SOFT_CAP_GB = 3.5
MediaHardCap == 8
MediaSoftCap == 7
HardWaitBufferMs == 100
HardWaitMinMs == 1000
SoftMediaPauseMs == 10000

Downloaders == 1..NumDownloaders

\* The sizes a download may have, in units
DownloadSizes == {MaxDownloadUnits - 1, MaxDownloadUnits}

\* filter((e) => e.timestamp >= cutoff)
RECURSIVE FilterRecent(_, _)
FilterRecent(entries, cutoff) ==
    IF entries = <<>> THEN <<>>
    ELSE IF Head(entries).timestamp >= cutoff
         THEN <<Head(entries)>> \o FilterRecent(Tail(entries), cutoff)
         ELSE FilterRecent(Tail(entries), cutoff)

\* reduce((sum, e) => sum + Number(e.bytes ?? 0), 0)
RECURSIVE SumBytes(_)
SumBytes(entries) ==
    IF entries = <<>> THEN 0 ELSE Head(entries).bytes + SumBytes(Tail(entries))

\* Math.min(...entries.map((e) => e.timestamp)) of a non-empty sequence
RECURSIVE MinTimestamp(_)
MinTimestamp(entries) ==
    IF Len(entries) = 1 THEN entries[1].timestamp
    ELSE LET m == MinTimestamp(Tail(entries))
         IN  IF entries[1].timestamp < m THEN entries[1].timestamp ELSE m

\* pruneMediaDownloads
PruneMediaDownloads(entries, t) == FilterRecent(entries, t - ONE_HOUR)

\* A faulty variant of the soft-cap test below: a sum equal to the cap passes
SoftCapReachedStrict(bytes) == bytes > MediaSoftCap

\* rollingHourBytes >= mediaLimits.soft
SoftCapReached(bytes) == bytes >= MediaSoftCap

\* rollingHourBytes >= mediaLimits.hard
HardCapReached(bytes) == bytes >= MediaHardCap

\* checkMediaDownload on an already pruned series: the wait in ms, 0 = proceed
CheckMediaDownload(entries, t) ==
    LET inWindow == FilterRecent(entries, t - ONE_HOUR)
        rollingHourBytes == SumBytes(inWindow)
    IN  IF HardCapReached(rollingHourBytes)
          THEN LET waitMs == MinTimestamp(inWindow) + ONE_HOUR - t + HardWaitBufferMs
               IN  IF waitMs >= HardWaitMinMs THEN waitMs ELSE HardWaitMinMs
        ELSE IF SoftCapReached(rollingHourBytes) THEN SoftMediaPauseMs
        ELSE 0

\* recordMediaDownload
RecordMediaDownload(entries, t, bytes) ==
    Append(entries, [timestamp |-> t, bytes |-> bytes])

NotChecked == [at |-> 0, bytes |-> 0, waitMs |-> 0]

MdInit ==
    /\ mNow = 0
    /\ mediaDownloads = <<>>
    /\ mpc = [d \in Downloaders |-> "idle"]
    /\ mWakeAt = [d \in Downloaders |-> 0]
    /\ mChecked = [d \in Downloaders |-> NotChecked]
    /\ mChecks = 0

\* The bytes an observer finds recorded in the 60 minutes ending at time t
RECURSIVE BytesOfEntries(_)
BytesOfEntries(I) ==
    IF I = {} THEN 0
    ELSE LET i == CHOOSE x \in I : TRUE
         IN  mediaDownloads[i].bytes + BytesOfEntries(I \ {i})

RollingWindowBytes(t) ==
    BytesOfEntries({i \in 1..Len(mediaDownloads) :
                      /\ mediaDownloads[i].timestamp >= t - ONE_HOUR
                      /\ mediaDownloads[i].timestamp <= t})

\* One run of the loop body of waitForMediaSlot for downloader d: prune,
\* check, then sleep or return to downloadMedia, which starts the fetch
CheckMediaAndProceed(d) ==
    LET pruned == PruneMediaDownloads(mediaDownloads, mNow)
        waitMs == CheckMediaDownload(pruned, mNow)
    IN  /\ mChecks < MaxMediaChecks
        /\ mChecks' = mChecks + 1
        /\ mediaDownloads' = pruned
        /\ mChecked' = [mChecked EXCEPT ![d] =
                          [at |-> mNow, bytes |-> RollingWindowBytes(mNow),
                           waitMs |-> waitMs]]
        /\ IF waitMs > 0
             THEN /\ mpc' = [mpc EXCEPT ![d] = "sleeping"]
                  /\ mWakeAt' = [mWakeAt EXCEPT ![d] = mNow + waitMs]
             ELSE /\ mpc' = [mpc EXCEPT ![d] = "downloading"]
                  /\ mWakeAt' = [mWakeAt EXCEPT ![d] = 0]
        /\ UNCHANGED mNow
        /\ UNCHANGED exceptMd

\* downloadMedia calls waitForMediaSlot
MediaCall(d) ==
    /\ mpc[d] = "idle"
    /\ CheckMediaAndProceed(d)

\* The sleep's timer fires and the check is repeated
MediaWake(d) ==
    /\ mpc[d] = "sleeping"
    /\ mNow >= mWakeAt[d]
    /\ CheckMediaAndProceed(d)

\* The download completes and its bytes are recorded
MediaDownloaded(d, bytes) ==
    /\ mpc[d] = "downloading"
    /\ Len(mediaDownloads) < MaxMediaEntries
    /\ mediaDownloads' = RecordMediaDownload(mediaDownloads, mNow, bytes)
    /\ mpc' = [mpc EXCEPT ![d] = "idle"]
    /\ mChecked' = [mChecked EXCEPT ![d] = NotChecked]
    /\ UNCHANGED <<mNow, mWakeAt, mChecks>>
    /\ UNCHANGED exceptMd

\* A faulty variant of the failed download below: the bytes of the error
\* body are recorded
MediaDownloadFailedRecorded(d) ==
    /\ mpc[d] = "downloading"
    /\ Len(mediaDownloads) < MaxMediaEntries
    /\ mediaDownloads' = RecordMediaDownload(mediaDownloads, mNow, MaxDownloadUnits)
    /\ mpc' = [mpc EXCEPT ![d] = "idle"]
    /\ mChecked' = [mChecked EXCEPT ![d] = NotChecked]
    /\ UNCHANGED <<mNow, mWakeAt, mChecks>>
    /\ UNCHANGED exceptMd

\* The download fails (response not ok): downloadMedia raises, nothing is recorded
MediaDownloadFailed(d) ==
    /\ mpc[d] = "downloading"
    /\ mpc' = [mpc EXCEPT ![d] = "idle"]
    /\ mChecked' = [mChecked EXCEPT ![d] = NotChecked]
    /\ UNCHANGED <<mNow, mediaDownloads, mWakeAt, mChecks>>
    /\ UNCHANGED exceptMd

\* The clock advances to a pending timer's deadline or by an hour
MediaTick ==
    /\ \E t \in {mWakeAt[d] : d \in {x \in Downloaders : mpc[x] = "sleeping"}}
                  \cup {mNow + ONE_HOUR} :
         /\ t > mNow
         /\ t <= MaxMediaNow
         /\ mNow' = t
    /\ UNCHANGED <<mediaDownloads, mpc, mWakeAt, mChecked, mChecks>>
    /\ UNCHANGED exceptMd

MdNext ==
    \/ \E d \in Downloaders : MediaCall(d)
    \/ \E d \in Downloaders : MediaWake(d)
    \/ \E d \in Downloaders, bytes \in DownloadSizes : MediaDownloaded(d, bytes)
    \/ \E d \in Downloaders : MediaDownloadFailed(d)
    \/ MediaTick

MaxStartupAdmissions == 2

\* Date.now() at startup; the logs hold rows older and younger than the windows
StartNow == 2 * ONE_DAY

RequestTimes == {StartNow - ONE_HOUR, StartNow - ONE_DAY - ONE_HOUR}

MediaRows ==
    [downloadedAt : {StartNow - ONE_HOUR \div 2, StartNow - 2 * ONE_HOUR},
     bytes : {Null, 1},
     status : {"success", "failed"}]

\* The worker starts with whatever earlier processes have logged
SuInit ==
    /\ spc = "created"
    /\ requestLog \in SUBSET RequestTimes
    /\ mediaLog \in {rs \in SUBSET MediaRows : Cardinality(rs) <= 2}
    /\ recentRequests = {}
    /\ recentMedia = {}
    /\ seededApi = {}
    /\ seededMedia = {}
    /\ initialized = FALSE
    /\ admissions = <<0, 0>>

\* The same, with empty logs
SuIdle == SuInit /\ requestLog = {} /\ mediaLog = {}

\* where requested_at > oneDayAgo
SelectRecentRequests(log, t) == {r \in log : r > t - ONE_DAY}

\* where downloaded_at > oneHourAgo AND status = 'success'
SelectRecentMedia(log, t) ==
    {m \in log : m.downloadedAt > t - ONE_HOUR /\ m.status = "success"}

\* initializeFromHistory: the API series
InitializeApiRequests(timestamps, t) == {r \in timestamps : r > t - ONE_DAY}

\* initializeFromHistory: the media series, of the rows that carry bytes
InitializeMediaDownloads(rowsIn, t) ==
    {[timestamp |-> m.downloadedAt, bytes |-> m.bytes] :
        m \in {x \in rowsIn : x.bytes # Null /\ x.downloadedAt >= t - ONE_HOUR}}

\* Both history queries return
QueryHistory ==
    /\ spc = "created"
    /\ recentRequests' = SelectRecentRequests(requestLog, StartNow)
    /\ recentMedia' = SelectRecentMedia(mediaLog, StartNow)
    /\ spc' = "loaded"
    /\ UNCHANGED <<requestLog, mediaLog, seededApi, seededMedia, initialized, admissions>>
    /\ UNCHANGED exceptSu

\* A history query raises (database error): the catch logs a warning
\* ("starting fresh") and start() goes on
QueryHistoryRaise ==
    /\ spc = "created"
    /\ spc' = "started"
    /\ UNCHANGED <<requestLog, mediaLog, recentRequests, recentMedia,
                   seededApi, seededMedia, initialized, admissions>>
    /\ UNCHANGED exceptSu

\* rateLimiter.initializeFromHistory(...), then start() goes on to the
\* downloader, the recovery, the initial import and the resource loops
InitializeFromHistory ==
    /\ spc = "loaded"
    /\ seededApi' = InitializeApiRequests(recentRequests, StartNow)
    /\ seededMedia' = InitializeMediaDownloads(recentMedia, StartNow)
    /\ initialized' = TRUE
    /\ spc' = "started"
    /\ UNCHANGED <<requestLog, mediaLog, recentRequests, recentMedia, admissions>>
    /\ UNCHANGED exceptSu

\* A loop started by start() is granted an API slot (waitForApiSlot returns)
AdmitApi ==
    /\ spc = "started"
    /\ admissions[1] < MaxStartupAdmissions
    /\ admissions' = <<admissions[1] + 1, admissions[2]>>
    /\ UNCHANGED <<spc, requestLog, mediaLog, recentRequests, recentMedia,
                   seededApi, seededMedia, initialized>>
    /\ UNCHANGED exceptSu

\* A download started by start() is granted a media slot
AdmitMedia ==
    /\ spc = "started"
    /\ admissions[2] < MaxStartupAdmissions
    /\ admissions' = <<admissions[1], admissions[2] + 1>>
    /\ UNCHANGED <<spc, requestLog, mediaLog, recentRequests, recentMedia,
                   seededApi, seededMedia, initialized>>
    /\ UNCHANGED exceptSu

SuNext ==
    \/ QueryHistory
    \/ QueryHistoryRaise
    \/ InitializeFromHistory
    \/ AdmitApi
    \/ AdmitMedia

\* C12: at startup no API or media admission is granted before the rate
\* limiter has been seeded with the request-log timestamps of the last 24 h
\* and the bytes of the completed media downloads of the last 60 min.
C12_SeededBeforeAdmission ==
    (admissions[1] > 0 \/ admissions[2] > 0) =>
        /\ initialized
        /\ seededApi = {r \in requestLog : r > StartNow - ONE_DAY}
        /\ {m.timestamp : m \in seededMedia} =
               {m.downloadedAt : m \in {x \in mediaLog :
                    /\ x.status = "success"
                    /\ x.bytes # Null
                    /\ x.downloadedAt > StartNow - ONE_HOUR}}

(***************************************************************************)
(* Part E.  fetchPage: one page request with 429 recovery                  *)
(***************************************************************************)

\* Bound: request-log inserts that may raise during one call
MaxLogFaults == 1

\* Bound: the longest wait for an API slot, in seconds
MaxSlotWaitSeconds == 1

RATE_LIMIT_PROBE_INTERVAL_MS == 10 * 60 * 1000
RATE_LIMIT_MAX_RETRIES == 10

\* What the feed may answer: 0 stands for a fetch that rejects (no response)
Responses == {200, 429, 500, 0}

\* The delays of waitForApiSlot
SlotWaits == {k * ONE_SECOND : k \in 0..MaxSlotWaitSeconds}

FpInit ==
    /\ fpc = "idle"
    /\ attempt429 = 0
    /\ fNow = 0
    /\ requests = <<>>
    /\ lastRequestAt = 0
    /\ probeGaps = {}
    /\ httpStatus = 0
    /\ errorMessage = "null"
    /\ completion = "none"
    /\ replicationRequests = <<>>
    /\ logFaults = 0

\* A faulty variant of the test below: a 429 is never probed again
ProbesLeftNone(attempt) == FALSE

\* if (attempt429 < RATE_LIMIT_MAX_RETRIES)
ProbesLeft(attempt) == attempt < RATE_LIMIT_MAX_RETRIES

\* The error message of a raised request, by its status
ErrorMessageOf(status) ==
    CASE status = 429 -> "RateLimited"
      [] status = 0   -> "Network"
      [] OTHER        -> "ApiError"

\* db.insert(replicationRequests): one row, or none when the insert raises
\* (both inserts swallow the failure)
InsertRequestRow(inserted, status, message) ==
    IF inserted
    THEN Append(replicationRequests,
                [request |-> Len(requests), httpStatus |-> status,
                 errorMessage |-> message])
    ELSE replicationRequests

\* fetchPage is called; the loop starts with attempt429 = 0
FetchPage ==
    /\ fpc = "idle"
    /\ fpc' = "waitForApiSlot"
    /\ UNCHANGED <<attempt429, fNow, requests, lastRequestAt, probeGaps,
                   httpStatus, errorMessage, completion, replicationRequests,
                   logFaults>>
    /\ UNCHANGED exceptFp

\* waitForApiSlot returns after some delay, the request is sent and the feed
\* answers; the try block runs up to its first await after the response
SendRequest(delay, status) ==
    /\ fpc = "waitForApiSlot"
    /\ fNow' = fNow + delay
    /\ requests' = Append(requests, [status |-> status])
    /\ lastRequestAt' = fNow + delay
    /\ probeGaps' = IF requests = <<>> THEN probeGaps
                    ELSE probeGaps \cup {fNow + delay - lastRequestAt}
    /\ httpStatus' = status
    /\ IF status = 429 /\ ProbesLeft(attempt429)
       THEN /\ fpc' = "probeWait"
            /\ errorMessage' = "null"
            /\ completion' = "continue"
       ELSE /\ fpc' = "finally"
            /\ errorMessage' = IF status = 200 THEN "null" ELSE ErrorMessageOf(status)
            /\ completion' = IF status = 200 THEN "return" ELSE "throw"
    /\ UNCHANGED <<attempt429, replicationRequests, logFaults>>
    /\ UNCHANGED exceptFp

\* A 429 with probes left: the 429 is logged, the call sleeps for the probe
\* interval, and `continue` leaves the try block
ProbeWait(inserted) ==
    /\ fpc = "probeWait"
    /\ inserted \/ logFaults < MaxLogFaults
    /\ replicationRequests' = InsertRequestRow(inserted, 429, "ProbeRetry")
    /\ logFaults' = IF inserted THEN logFaults ELSE logFaults + 1
    /\ fNow' = fNow + RATE_LIMIT_PROBE_INTERVAL_MS
    /\ fpc' = "finally"
    /\ UNCHANGED <<attempt429, requests, lastRequestAt, probeGaps, httpStatus,
                   errorMessage, completion>>
    /\ UNCHANGED exceptFp

\* The finally block logs the request; then the loop continues, or the call
\* returns or raises
Finally(inserted) ==
    /\ fpc = "finally"
    /\ inserted \/ logFaults < MaxLogFaults
    /\ replicationRequests' = InsertRequestRow(inserted, httpStatus, errorMessage)
    /\ logFaults' = IF inserted THEN logFaults ELSE logFaults + 1
    /\ CASE completion = "return" ->
              fpc' = "returned" /\ UNCHANGED attempt429
         [] completion = "throw" ->
              fpc' = "raised" /\ UNCHANGED attempt429
         [] OTHER ->
              /\ attempt429' = attempt429 + 1
              /\ fpc' = IF attempt429 + 1 <= RATE_LIMIT_MAX_RETRIES
                        THEN "waitForApiSlot" ELSE "raised"
    /\ UNCHANGED <<fNow, requests, lastRequestAt, probeGaps, httpStatus,
                   errorMessage, completion>>
    /\ UNCHANGED exceptFp

FpNext ==
    \/ FetchPage
    \/ \E delay \in SlotWaits, status \in Responses : SendRequest(delay, status)
    \/ \E inserted \in BOOLEAN : ProbeWait(inserted)
    \/ \E inserted \in BOOLEAN : Finally(inserted)

\* The feed answered every request so far with 429
AllRateLimited == \A i \in 1..Len(requests) : requests[i].status = 429

\* fetchPage raised RateLimited
RaisedRateLimited == fpc = "raised" /\ httpStatus = 429

RowsOfRequest(i) ==
    {j \in 1..Len(replicationRequests) : replicationRequests[j].request = i}

\* C14: each HTTP request made by fetchPage (success, failure, 429, every
\* probe) appends exactly one request-log row, and a failed request's row
\* carries the error message.  Stated for the calls whose log inserts all
\* succeeded.
C14_OneLogRowPerRequest ==
    (fpc \in {"returned", "raised"} /\ logFaults = 0) =>
        \A i \in 1..Len(requests) :
            /\ Cardinality(RowsOfRequest(i)) = 1
            /\ requests[i].status # 200 =>
                   \A j \in RowsOfRequest(i) :
                       replicationRequests[j].errorMessage # "null"

(***************************************************************************)
(* Part F.  processPropertyRecord, for the records of one listing key      *)
(***************************************************************************)

\* Bound: records processed
MaxRecords == 3

\* Bound: the list prices of records (Null is no price)
MaxPrice == 2

\* Bound: statements that may raise
MaxStmtFaults == 1

NoListing ==
    [present |-> FALSE, mlgCanView |-> FALSE, listPrice |-> Null,
     standardStatus |-> "null", photosChangeTs |-> Null]

NoRaw == [present |-> FALSE, ListPrice |-> Null, StandardStatus |-> "null"]

\* The incoming records with MlgCanView true.  Rooms, UnitTypes and Media are
\* Null (none) or stand for the record's list.  The records drawn carry rooms
\* or unit types, not both, and a PhotosChangeTimestamp exactly when they
\* carry media.
VisibleRecords ==
    {rec \in [MlgCanView : {TRUE}, ListPrice : Null..MaxPrice,
              StandardStatus : {"Active", "Closed"}, Rooms : {Null, 1},
              UnitTypes : {Null, 1}, Media : {Null, 1},
              PhotosChangeTimestamp : {Null, 1}] :
        /\ (rec.Rooms = Null) # (rec.UnitTypes = Null)
        /\ (rec.Media = Null) = (rec.PhotosChangeTimestamp = Null)}

\* The incoming record with MlgCanView false: its other fields are not read
HiddenRecord ==
    [MlgCanView |-> FALSE, ListPrice |-> Null, StandardStatus |-> "Closed",
     Rooms |-> Null, UnitTypes |-> Null, Media |-> Null,
     PhotosChangeTimestamp |-> Null]

PropertyRecords == VisibleRecords \cup {HiddenRecord}

DbEmpty ==
    [properties |-> NoListing, rooms |-> Null, unitTypes |-> Null,
     rawResponses |-> NoRaw, media |-> Null,
     priceHistory |-> <<>>, statusHistory |-> <<>>, propertyChangeLog |-> <<>>]

NoStats == [inserted |-> 0, updated |-> 0, deleted |-> 0, mediaQueued |-> 0]

PpInit ==
    /\ ppc = "idle"
    /\ raw = HiddenRecord
    /\ options = [isInitialImport |-> FALSE]
    /\ existing = NoListing
    /\ db = DbEmpty
    /\ r2Objects = Null
    /\ alerts = <<>>
    /\ pStats = NoStats
    /\ pOutcome = "none"
    /\ before = [db |-> DbEmpty, r2Objects |-> Null, alerts |-> <<>>,
                 repeats |-> FALSE]
    /\ upsertDone = FALSE
    /\ processed = 0
    /\ stmtFaults = 0

\* transformProperty: the columns kept here
TransformProperty(rec) ==
    [present |-> TRUE, mlgCanView |-> rec.MlgCanView,
     listPrice |-> rec.ListPrice, standardStatus |-> rec.StandardStatus,
     photosChangeTs |-> rec.PhotosChangeTimestamp]

\* photosChanged && mediaRecords && mediaRecords.length > 0
DownloadsMediaInline(old, rec) ==
    /\ \/ ~old.present
       \/ rec.PhotosChangeTimestamp # Null
          /\ old.photosChangeTs # rec.PhotosChangeTimestamp
    /\ rec.Media # Null

\* stripExpandedResources
StripExpandedResources(rec) ==
    [present |-> TRUE, ListPrice |-> rec.ListPrice,
     StandardStatus |-> rec.StandardStatus]

\* recordDiffs: the price change
DiffPrice(d, old, rec) ==
    IF old.listPrice # rec.ListPrice /\ rec.ListPrice # Null
    THEN [d EXCEPT !.priceHistory =
              Append(@, [oldPrice |-> old.listPrice, newPrice |-> rec.ListPrice])]
    ELSE d

\* recordDiffs: the status change
DiffStatus(d, old, rec) ==
    IF old.standardStatus # rec.StandardStatus /\ rec.StandardStatus # "null"
    THEN [d EXCEPT !.statusHistory =
              Append(@, [oldStatus |-> old.standardStatus,
                         newStatus |-> rec.StandardStatus])]
    ELSE d

\* recordDiffs: the change log of the watched fields kept here
DiffChangeLog(d, old, rec) ==
    LET price == IF old.listPrice # rec.ListPrice /\ rec.ListPrice # Null
                 THEN <<"ListPrice">> ELSE <<>>
        stat  == IF old.standardStatus # rec.StandardStatus /\ rec.StandardStatus # "null"
                 THEN <<"StandardStatus">> ELSE <<>>
    IN  [d EXCEPT !.propertyChangeLog = @ \o price \o stat]

\* The statement processPropertyRecord runs at position p, as its effect on
\* the tables
Statement(p, d) ==
    CASE p = "diff.price"  -> DiffPrice(d, existing, raw)
      [] p = "diff.status" -> DiffStatus(d, existing, raw)
      [] p = "diff.log"    -> DiffChangeLog(d, existing, raw)
      [] p = "delete.rooms"     -> [d EXCEPT !.rooms = Null]
      [] p = "delete.unitTypes" -> [d EXCEPT !.unitTypes = Null]
      [] p = "upsert.properties"   -> [d EXCEPT !.properties = TransformProperty(raw)]
      [] p = "upsert.rawResponses" -> [d EXCEPT !.rawResponses = StripExpandedResources(raw)]
      [] p = "insert.rooms"     -> [d EXCEPT !.rooms = raw.Rooms]
      [] p = "insert.unitTypes" -> [d EXCEPT !.unitTypes = raw.UnitTypes]
      [] p = "media" ->
            IF DownloadsMediaInline(existing, raw)
            THEN [d EXCEPT !.media = raw.Media] ELSE d
      [] p = "softDelete.update" -> [d EXCEPT !.properties.mlgCanView = FALSE]
      [] p = "softDelete.status" ->
            [d EXCEPT !.statusHistory =
                Append(@, [oldStatus |-> existing.standardStatus,
                           newStatus |-> "Deleted/Removed"])]
      [] p = "softDelete.media" -> [d EXCEPT !.media = Null]
      [] OTHER -> d

\* The position after the statement at p; "return" ends the call
NextStatement(p, row) ==
    CASE p = "select" ->
            IF row.present /\ ~options.isInitialImport
            THEN "diff.price" ELSE "delete.rooms"
      [] p = "diff.price"  -> "diff.status"
      [] p = "diff.status" -> "diff.log"
      [] p = "diff.log"    -> "delete.rooms"
      [] p = "delete.rooms"        -> "delete.unitTypes"
      [] p = "delete.unitTypes"    -> "upsert.properties"
      [] p = "upsert.properties"   -> "upsert.rawResponses"
      [] p = "upsert.rawResponses" -> "insert.rooms"
      [] p = "insert.rooms"        -> "insert.unitTypes"
      [] p = "insert.unitTypes"    -> "media"
      [] p = "media" ->
            IF ~options.isInitialImport /\ row.present THEN "notify" ELSE "return"
      [] p = "softDelete.select" ->
            IF row.present THEN "softDelete.update" ELSE "return"
      [] p = "softDelete.update" ->
            IF options.isInitialImport THEN "softDelete.media" ELSE "softDelete.status"
      [] p = "softDelete.status" -> "softDelete.media"
      [] p = "softDelete.media" ->
            IF options.isInitialImport THEN "return" ELSE "softDelete.notify"
      [] OTHER -> "return"

\* The stats the call has set once it is past the statement at p, next being
\* the position that follows
StatsAfter(p, next, st) ==
    CASE p = "media" ->
            [st EXCEPT !.mediaQueued =
                    IF DownloadsMediaInline(existing, raw) THEN 1 ELSE 0,
                 !.inserted = IF existing.present THEN 0 ELSE 1,
                 !.updated = IF existing.present THEN 1 ELSE 0]
      [] p \in {"softDelete.select", "softDelete.media", "softDelete.notify"}
            /\ next = "return" ->
            [st EXCEPT !.deleted = 1]
      [] OTHER -> st

\* processPropertyRecord(raw, options) is called
ProcessPropertyCall(rec, isInitialImport) ==
    /\ ppc = "idle"
    /\ processed < MaxRecords
    /\ processed' = processed + 1
    /\ raw' = rec
    /\ options' = [isInitialImport |-> isInitialImport]
    /\ existing' = NoListing
    /\ pStats' = NoStats
    /\ pOutcome' = "none"
    /\ before' = [db |-> db, r2Objects |-> r2Objects, alerts |-> alerts,
                  repeats |-> /\ pOutcome = "returned"
                              /\ rec = raw
                              /\ isInitialImport = options.isInitialImport]
    /\ upsertDone' = FALSE
    /\ ppc' = IF rec.MlgCanView THEN "select" ELSE "softDelete.select"
    /\ UNCHANGED <<db, r2Objects, alerts, stmtFaults>>
    /\ UNCHANGED exceptPp

\* The next statement of the call runs.  objectsDeleted is whether
\* batchDeleteFromR2 succeeded (its failure is caught and logged).
RunStatement(objectsDeleted) ==
    /\ ppc # "idle"
    /\ objectsDeleted \/ (ppc = "softDelete.media" /\ db.media # Null)
    /\ LET row  == IF ppc \in {"select", "softDelete.select"}
                   THEN db.properties ELSE existing
           next == NextStatement(ppc, row)
       IN  /\ existing' = row
           /\ db' = Statement(ppc, db)
           /\ r2Objects' =
                CASE ppc = "media" /\ DownloadsMediaInline(existing, raw) -> raw.Media
                  [] ppc = "softDelete.media" /\ db.media # Null /\ objectsDeleted -> Null
                  [] OTHER -> r2Objects
           /\ alerts' =
                CASE ppc = "notify" -> Append(alerts, "property_updated")
                  [] ppc = "softDelete.notify" -> Append(alerts, "property_deleted")
                  [] OTHER -> alerts
           /\ upsertDone' = (upsertDone \/ ppc = "upsert.properties")
           /\ pStats' = StatsAfter(ppc, next, pStats)
           /\ IF next = "return"
              THEN ppc' = "idle" /\ pOutcome' = "returned"
              ELSE ppc' = next /\ UNCHANGED pOutcome
    /\ UNCHANGED <<raw, options, before, processed, stmtFaults>>
    /\ UNCHANGED exceptPp

\* The next statement raises (database error) or the process crashes: the
\* call ends there and the tables keep what the earlier statements wrote
StatementRaises ==
    /\ ppc # "idle"
    /\ stmtFaults < MaxStmtFaults
    /\ stmtFaults' = stmtFaults + 1
    /\ ppc' = "idle"
    /\ pOutcome' = "raised"
    /\ UNCHANGED <<raw, options, existing, db, r2Objects, alerts, pStats,
                   before, upsertDone, processed>>
    /\ UNCHANGED exceptPp

PpNext ==
    \/ \E rec \in PropertyRecords, isInitialImport \in BOOLEAN :
           ProcessPropertyCall(rec, isInitialImport)
    \/ \E objectsDeleted \in BOOLEAN : RunStatement(objectsDeleted)
    \/ StatementRaises

\* The latest call has returned, and no statement has raised so far
Returned == ppc = "idle" /\ pOutcome = "returned" /\ stmtFaults = 0

\* C15: processing a record with canView=false for an existing visible
\* listing flips the row to hidden and leaves every media row and every
\* stored media object of the listing in place.
C15_SoftHideKeepsMedia ==
    (/\ Returned
     /\ ~raw.MlgCanView
     /\ before.db.properties.present
     /\ before.db.properties.mlgCanView) =>
        /\ db.properties.present
        /\ ~db.properties.mlgCanView
        /\ db.media = before.db.media
        /\ r2Objects = before.r2Objects

\* C16: in replication mode a statusHistory row 'Deleted/Removed' is appended
\* (and the alert hook invoked) only when the stored visibility changes from
\* visible to hidden; a canView=false record for an already hidden listing
\* appends no statusHistory row.
C16_DeletedRowOnlyOnTransition ==
    (Returned /\ ~raw.MlgCanView /\ ~options.isInitialImport) =>
        /\ (db.statusHistory # before.db.statusHistory \/ alerts # before.alerts) =>
               /\ before.db.properties.present
               /\ before.db.properties.mlgCanView
        /\ (before.db.properties.present /\ ~before.db.properties.mlgCanView) =>
               db.statusHistory = before.db.statusHistory

\* C17: a record with canView=false when no row exists for its key is a
\* no-op: no listing, history, media or archive row is written and the stats
\* returned are all zero.
C17_HiddenUnknownIsNoOp ==
    (Returned /\ ~raw.MlgCanView /\ ~before.db.properties.present) =>
        /\ db = before.db
        /\ r2Objects = before.r2Objects
        /\ pStats = NoStats

\* The tables written by step 5 of processPropertyRecord
Step5Tables(d) == <<d.rooms, d.unitTypes, d.properties, d.rawResponses>>

\* C18: the replacement of the children (rooms, unitTypes), the listing
\* upsert and the raw-archive upsert take effect atomically: after a crash or
\* an error these tables hold all of the record's writes or none.
C18_Step5Atomic ==
    (ppc = "idle" /\ pOutcome = "raised" /\ raw.MlgCanView) =>
        \/ Step5Tables(db) = Step5Tables(before.db)
        \/ Step5Tables(db) = <<raw.Rooms, raw.UnitTypes, TransformProperty(raw),
                               StripExpandedResources(raw)>>

\* C19: the priceHistory, statusHistory and changeLog rows of a record's diff
\* are appended only after the listing upsert of that record has completed.
C19_HistoryAfterUpsert ==
    (/\ raw.MlgCanView
     /\ \/ db.priceHistory # before.db.priceHistory
        \/ db.statusHistory # before.db.statusHistory
        \/ db.propertyChangeLog # before.db.propertyChangeLog) =>
        upsertDone

\* C20: for every record processed in replication mode whose listPrice
\* differs from the stored one (including a change to or from no price),
\* exactly one priceHistory row is appended, with the stored price as old and
\* the incoming price as new.
C20_OnePriceRowPerChange ==
    (/\ Returned
     /\ raw.MlgCanView
     /\ ~options.isInitialImport
     /\ before.db.properties.present
     /\ before.db.properties.listPrice # raw.ListPrice) =>
        db.priceHistory =
            Append(before.db.priceHistory,
                   [oldPrice |-> before.db.properties.listPrice,
                    newPrice |-> raw.ListPrice])

\* C21: processing the same listing record twice in a row leaves the listing
\* row as after the first pass; the second pass appends no history row and
\* downloads no media.
C21_SecondPassChangesNothing ==
    (/\ Returned
     /\ processed >= 2
     /\ before.repeats) =>
        /\ db.properties = before.db.properties
        /\ db.priceHistory = before.db.priceHistory
        /\ db.statusHistory = before.db.statusHistory
        /\ db.propertyChangeLog = before.db.propertyChangeLog
        /\ pStats.mediaQueued = 0

\* The same for the records that are visible (MlgCanView true)
C21_SecondPassOfVisibleRecord == raw.MlgCanView => C21_SecondPassChangesNothing

(***************************************************************************)
(* Part G.  The media rows and the background downloader                   *)
(* (MediaDownloader: loop, downloadOne, recoverFailedMedia, recoverOne),   *)
(* with the inline download of processPropertyRecord writing the same      *)
(* rows.  A URL is "null" (none), "valid" or "expired" (its expires token  *)
(* is past); a public URL and an object key are "null" or set.             *)
(***************************************************************************)
NumMedia == 3
MediaConcurrency == 2
MaxBytes == 1
MaxEmptyBodies == 1
MaxInline == 1
MaxDownloadFailures == 1

MAX_RETRIES == 5
MEDIA_MAX_RETRIES == 3
INITIAL_RATE_LIMIT_PAUSE_MS == 300000
MAX_RATE_LIMIT_PAUSE_MS == 900000

MediaKeys == 1..NumMedia
MediaResponses == {200, 400, 403, 429, 500}
MediaUrls == {"null", "valid", "expired"}

\* fileSizeBytes of a row whose size was never stored (SQL NULL)
NoSize == Null - 1

NoMedia ==
    [status |-> "absent", r2ObjectKey |-> "null", publicUrl |-> "null",
     fileSizeBytes |-> NoSize, retryCount |-> 0, mediaUrlSource |-> "null"]

\* The row transformMediaRecords builds for a media record with the given URL
TransformMediaRecord(url) ==
    [status |-> "pending_download", r2ObjectKey |-> "key", publicUrl |-> "null",
     fileSizeBytes |-> NoSize, retryCount |-> 0, mediaUrlSource |-> url]

isMediaUrlExpired(url) == url = "expired"

NoDownload == [pc |-> "idle", mediaUrlSource |-> "null", retryCount |-> 0]

\* The rows a start finds: none, queued by a resource processor (some after
\* failed attempts of an earlier run), or left expired by an earlier run
StoredMedia ==
    {NoMedia, TransformMediaRecord("valid"),
     [TransformMediaRecord("valid") EXCEPT !.retryCount = MAX_RETRIES - 1],
     [TransformMediaRecord("expired") EXCEPT !.status = "expired"]}

DlInit ==
    /\ mediaTable \in [MediaKeys -> StoredMedia]
    /\ running = TRUE
    /\ activeDownloads = 0
    /\ remainingPauseMs = 0
    /\ currentPauseMs = INITIAL_RATE_LIMIT_PAUSE_MS
    /\ lpc = "poll"
    /\ pending = <<>>
    /\ downloads = [k \in MediaKeys |-> NoDownload]
    /\ rpc = "select"
    /\ failedRows = <<>>
    /\ emptyBodies = 0
    /\ inlineCalls = 0
    /\ downloadFailures = 0

\* Date.now() < this.rateLimitPauseUntil
DlPaused == remainingPauseMs > 0

\* The row after a download of b bytes was stored under its key
CompleteRow(row, url, b) ==
    [row EXCEPT !.status = "complete", !.r2ObjectKey = "key",
                !.publicUrl = "url", !.fileSizeBytes = b,
                !.mediaUrlSource = url]

\* UPDATE media SET ... WHERE mediaKey = k: no row, no change
UpdateMedia(k, row) ==
    IF mediaTable[k].status = "absent" THEN mediaTable
    ELSE [mediaTable EXCEPT ![k] = row]

\* The limit of the poll's select
AvailableSlotsUnlimited(active) == NumMedia

AvailableSlots(active) ==
    IF MediaConcurrency - active > 1 THEN MediaConcurrency - active ELSE 1

\* loop(): the poll for pending rows, S being the rows the select returns
LoopPoll(S) ==
    /\ lpc = "poll"
    /\ running
    /\ ~DlPaused
    /\ LET pend == {k \in MediaKeys : mediaTable[k].status = "pending_download"}
           availableSlots == AvailableSlots(activeDownloads)
       IN  /\ S # {}
           /\ S \subseteq pend
           /\ Cardinality(S) = IF Cardinality(pend) < availableSlots
                               THEN Cardinality(pend) ELSE availableSlots
    /\ pending' = [k \in S |->
                      [mediaUrlSource |-> mediaTable[k].mediaUrlSource,
                       retryCount |-> mediaTable[k].retryCount,
                       waiting |-> FALSE]]
    /\ lpc' = "dispatch"
    /\ UNCHANGED <<mediaTable, running, activeDownloads, remainingPauseMs, currentPauseMs, downloads, rpc, failedRows,
                   emptyBodies, inlineCalls,
                   downloadFailures>>
    /\ UNCHANGED exceptDl

\* loop(): the next row of the batch.  It waits while activeDownloads >=
\* concurrency and running, then calls downloadOne without awaiting it;
\* downloadOne increments activeDownloads before its first await.
LoopStartDownload(k) ==
    /\ lpc = "dispatch"
    /\ k \in DOMAIN pending
    /\ \/ /\ ~pending[k].waiting
          /\ \A o \in DOMAIN pending : ~pending[o].waiting
          /\ running
          /\ ~DlPaused
       \/ pending[k].waiting
    /\ IF activeDownloads >= MediaConcurrency /\ running
       THEN /\ pending' = [pending EXCEPT ![k].waiting = TRUE]
            /\ UNCHANGED <<activeDownloads, downloads>>
       ELSE /\ pending' = [o \in DOMAIN pending \ {k} |-> pending[o]]
            /\ activeDownloads' = activeDownloads + 1
            /\ downloads' = [downloads EXCEPT ![k] =
                    [pc |-> "started",
                     mediaUrlSource |-> pending[k].mediaUrlSource,
                     retryCount |-> pending[k].retryCount]]
    /\ pending' # pending
    /\ UNCHANGED <<mediaTable, running, remainingPauseMs, currentPauseMs,
                   lpc, rpc, failedRows, emptyBodies, inlineCalls,
                   downloadFailures>>
    /\ UNCHANGED exceptDl

\* loop(): the break out of the batch, the wait for the batch to finish and
\* the end of the loop once running is false
LoopStep ==
    /\ \/ /\ lpc = "dispatch"
          /\ \A o \in DOMAIN pending : ~pending[o].waiting
          /\ pending = <<>> \/ ~running \/ DlPaused
          /\ lpc' = "drain"
       \/ /\ lpc = "drain"
          /\ activeDownloads = 0 \/ ~running
          /\ lpc' = "poll"
       \/ /\ lpc = "poll"
          /\ ~running
          /\ lpc' = "exited"
    /\ pending' = <<>>
    /\ UNCHANGED <<mediaTable, running, activeDownloads, remainingPauseMs, currentPauseMs, downloads, rpc, failedRows,
                   emptyBodies, inlineCalls,
                   downloadFailures>>
    /\ UNCHANGED exceptDl

\* The retry count at which downloadOne gives a row up
RetriesExhaustedLate(newRetryCount) == newRetryCount > MAX_RETRIES

RetriesExhausted(newRetryCount) == newRetryCount >= MAX_RETRIES

\* The pause that follows the pause p
NextPauseUncapped(p) == p * 2

NextPause(p) ==
    IF p * 2 < MAX_RATE_LIMIT_PAUSE_MS THEN p * 2 ELSE MAX_RATE_LIMIT_PAUSE_MS

\* downloadOne(row) up to its finally block: response is the CDN's answer
\* (500 stands for every failure without a 400, 403 or 429 status) and b
\* the size of a 200 answer's body
DownloadOne(k, response, b) ==
    LET dl == downloads[k]
        row == mediaTable[k]
        newRetryCount == dl.retryCount + 1
        called == dl.mediaUrlSource # "null" /\ ~isMediaUrlExpired(dl.mediaUrlSource)
    IN  /\ dl.pc = "started"
        /\ called \/ (response = 200 /\ b = MaxBytes)
        /\ (called /\ response = 200) \/ b = MaxBytes
        /\ (called /\ response = 200 /\ b = 0) => emptyBodies < MaxEmptyBodies
        /\ emptyBodies' = IF called /\ response = 200 /\ b = 0
                          THEN emptyBodies + 1 ELSE emptyBodies
        /\ (called /\ response = 500) => downloadFailures < MaxDownloadFailures
        /\ downloadFailures' = IF called /\ response = 500
                               THEN downloadFailures + 1 ELSE downloadFailures
        /\ downloads' = [downloads EXCEPT ![k].pc = "finally"]
        /\ mediaTable' =
            CASE dl.mediaUrlSource = "null" ->
                    UpdateMedia(k, [row EXCEPT !.status = "failed"])
              [] isMediaUrlExpired(dl.mediaUrlSource) ->
                    UpdateMedia(k, [row EXCEPT !.status = "expired"])
              [] response = 200 ->
                    UpdateMedia(k, CompleteRow(row, row.mediaUrlSource, b))
              [] response \in {400, 403} ->
                    UpdateMedia(k, [row EXCEPT !.status = "expired"])
              [] response = 429 -> mediaTable
              [] RetriesExhausted(newRetryCount) ->
                    UpdateMedia(k, [row EXCEPT !.status = "failed",
                                               !.retryCount = newRetryCount])
              [] OTHER ->
                    UpdateMedia(k, [row EXCEPT !.retryCount = newRetryCount])
        /\ remainingPauseMs' = IF called /\ response = 429
                               THEN currentPauseMs ELSE remainingPauseMs
        /\ currentPauseMs' =
            CASE called /\ response = 200 -> INITIAL_RATE_LIMIT_PAUSE_MS
              [] called /\ response = 429 -> NextPause(currentPauseMs)
              [] OTHER -> currentPauseMs
        /\ UNCHANGED <<running, activeDownloads, lpc, pending, rpc,
                       failedRows, inlineCalls>>
        /\ UNCHANGED exceptDl

\* downloadOne's finally block
DownloadOneFinally(k) ==
    /\ downloads[k].pc = "finally"
    /\ activeDownloads' = activeDownloads - 1
    /\ downloads' = [downloads EXCEPT ![k] = NoDownload]
    /\ UNCHANGED <<mediaTable, running, remainingPauseMs, currentPauseMs,
                   lpc, pending, rpc, failedRows, emptyBodies,
                   inlineCalls,
                   downloadFailures>>
    /\ UNCHANGED exceptDl

\* stop()
StopDownloader ==
    /\ running
    /\ running' = FALSE
    /\ UNCHANGED <<mediaTable, activeDownloads, remainingPauseMs, currentPauseMs, lpc, pending, downloads, rpc,
                   failedRows, emptyBodies, inlineCalls,
                   downloadFailures>>
    /\ UNCHANGED exceptDl

\* Date.now() advances while the downloads are paused
DlTick ==
    /\ remainingPauseMs > 0
    /\ remainingPauseMs' = remainingPauseMs - INITIAL_RATE_LIMIT_PAUSE_MS
    /\ UNCHANGED <<mediaTable, running, activeDownloads, currentPauseMs, lpc,
                   pending, downloads, rpc, failedRows, emptyBodies,
                   inlineCalls, downloadFailures>>
    /\ UNCHANGED exceptDl

\* An upsert of downloadMediaInline: the insert of a new row or the update
\* of the stored one
UpsertMedia(k, inserted, updated) ==
    [mediaTable EXCEPT ![k] =
        IF mediaTable[k].status = "absent" THEN inserted ELSE updated]

\* downloadMediaInline: needsDownload
NeedsDownload(existingRow, mediaModTsChanged) ==
    \/ existingRow.status = "absent"
    \/ existingRow.status # "complete"
    \/ mediaModTsChanged

\* downloadMediaInline: the fast path for a row whose object is stored
AlreadyInR2(existingRow) ==
    /\ existingRow.r2ObjectKey # "null"
    /\ existingRow.publicUrl # "null"
    /\ existingRow.fileSizeBytes # NoSize
    /\ existingRow.fileSizeBytes > 0

\* One row of downloadMediaInline: the record carries the media with the
\* given URL, mediaModTsChanged tells whether its MediaModificationTimestamp
\* differs from the stored one, and result is how the download loop ends
DownloadMediaInline(k, url, mediaModTsChanged, result, b) ==
    LET existingRow == mediaTable[k]
        row == TransformMediaRecord(url)
        needsDownload == NeedsDownload(existingRow, mediaModTsChanged)
        alreadyInR2 == AlreadyInR2(existingRow)
        keepsExisting == /\ existingRow.publicUrl # "null"
                         /\ existingRow.fileSizeBytes # NoSize
                         /\ existingRow.fileSizeBytes > 0
        downloaded == /\ needsDownload /\ ~alreadyInR2
                      /\ url = "valid" /\ result = "complete"
    IN  /\ inlineCalls < MaxInline
        /\ inlineCalls' = inlineCalls + 1
        /\ (downloaded /\ b = 0) => emptyBodies < MaxEmptyBodies
        /\ downloaded \/ b = MaxBytes
        /\ emptyBodies' = IF downloaded /\ b = 0
                          THEN emptyBodies + 1 ELSE emptyBodies
        /\ mediaTable' =
            CASE ~needsDownload -> mediaTable
              [] alreadyInR2 ->
                    UpdateMedia(k, [existingRow EXCEPT !.status = "complete"])
              [] url = "null" ->
                    UpsertMedia(k, [row EXCEPT !.status = "failed"],
                                [existingRow EXCEPT !.status = "failed"])
              [] isMediaUrlExpired(url) ->
                    IF existingRow.status = "expired" THEN mediaTable
                    ELSE UpsertMedia(k, [row EXCEPT !.status = "expired"],
                                     [existingRow EXCEPT !.status = "expired",
                                                         !.mediaUrlSource = url])
              [] result = "complete" ->
                    UpsertMedia(k, CompleteRow(row, url, b),
                                CompleteRow(existingRow, url, b))
              [] result = "expired" ->
                    IF keepsExisting THEN mediaTable
                    ELSE UpsertMedia(k, [row EXCEPT !.status = "expired"],
                                     [existingRow EXCEPT !.status = "expired",
                                                         !.mediaUrlSource = url])
              [] OTHER ->
                    UpsertMedia(k, [row EXCEPT !.status = "failed"],
                                [existingRow EXCEPT !.status = "failed",
                                                    !.retryCount = MEDIA_MAX_RETRIES])
        /\ UNCHANGED <<running, activeDownloads, remainingPauseMs, currentPauseMs, lpc, pending, downloads, rpc,
                       failedRows,
                   downloadFailures>>
        /\ UNCHANGED exceptDl

\* recoverFailedMedia(): the select of the failed and expired rows
RecoverFailedMedia ==
    /\ rpc = "select"
    /\ LET sel == {k \in MediaKeys : mediaTable[k].status \in {"failed", "expired"}}
       IN  /\ failedRows' = [k \in sel |->
                                [mediaUrlSource |-> mediaTable[k].mediaUrlSource,
                                 r2ObjectKey |-> mediaTable[k].r2ObjectKey,
                                 publicUrl |-> mediaTable[k].publicUrl]]
           /\ rpc' = IF sel = {} THEN "done" ELSE "rows"
    /\ UNCHANGED <<mediaTable, running, activeDownloads, remainingPauseMs, currentPauseMs, lpc, pending, downloads, emptyBodies,
                   inlineCalls,
                   downloadFailures>>
    /\ UNCHANGED exceptDl

\* recoverFailedMedia(): one selected row.  freshUrl is the URL the refetch
\* of the parent listing returns for it ("null": none), response and b the
\* answer to recoverOne's download.
RecoverRow(k, freshUrl, response, b) ==
    LET sel == failedRows[k]
        row == mediaTable[k]
        alreadyInR2 == sel.r2ObjectKey # "null" /\ sel.publicUrl # "null"
        stillValid == sel.mediaUrlSource = "valid"
        mediaUrl == IF stillValid THEN sel.mediaUrlSource ELSE freshUrl
        recovers == ~alreadyInR2 /\ mediaUrl # "null"
        refreshed == IF stillValid THEN row
                     ELSE [row EXCEPT !.mediaUrlSource = freshUrl]
    IN  /\ rpc = "rows"
        /\ k \in DOMAIN failedRows
        /\ freshUrl \in {"null", "valid"}
        /\ (alreadyInR2 \/ stillValid) => freshUrl = "null"
        /\ recovers \/ (response = 200 /\ b = MaxBytes)
        /\ (recovers /\ response = 200) \/ b = MaxBytes
        /\ (recovers /\ response = 200 /\ b = 0) => emptyBodies < MaxEmptyBodies
        /\ emptyBodies' = IF recovers /\ response = 200 /\ b = 0
                          THEN emptyBodies + 1 ELSE emptyBodies
        /\ mediaTable' =
            CASE alreadyInR2 ->
                    UpdateMedia(k, [row EXCEPT !.status = "complete"])
              [] mediaUrl = "null" ->
                    UpdateMedia(k, [row EXCEPT !.status = "failed"])
              [] response = 200 ->
                    UpdateMedia(k, [CompleteRow(row, mediaUrl, b)
                                        EXCEPT !.retryCount = 0])
              [] response = 429 ->
                    UpdateMedia(k, [refreshed EXCEPT !.status = "expired"])
              [] OTHER ->
                    UpdateMedia(k, [refreshed EXCEPT !.status = "failed"])
        /\ failedRows' = [o \in DOMAIN failedRows \ {k} |-> failedRows[o]]
        /\ rpc' = IF DOMAIN failedRows = {k} THEN "done" ELSE "rows"
        /\ UNCHANGED <<running, activeDownloads, remainingPauseMs, currentPauseMs, lpc, pending, downloads,
                       inlineCalls,
                   downloadFailures>>
        /\ UNCHANGED exceptDl

DlNext ==
    \/ \E S \in SUBSET MediaKeys : LoopPoll(S)
    \/ \E k \in MediaKeys : LoopStartDownload(k)
    \/ LoopStep
    \/ \E k \in MediaKeys, response \in MediaResponses, b \in 0..MaxBytes :
            DownloadOne(k, response, b)
    \/ \E k \in MediaKeys : DownloadOneFinally(k)
    \/ StopDownloader
    \/ DlTick

\* The downloader together with the other writers of the media rows
MrNext ==
    \/ \E S \in SUBSET MediaKeys : LoopPoll(S)
    \/ \E k \in MediaKeys : LoopStartDownload(k)
    \/ LoopStep
    \/ \E k \in MediaKeys, response \in MediaResponses, b \in 0..MaxBytes :
            DownloadOne(k, response, b)
    \/ \E k \in MediaKeys : DownloadOneFinally(k)
    \/ StopDownloader
    \/ DlTick
    \/ \E k \in MediaKeys, url \in MediaUrls, mediaModTsChanged \in BOOLEAN,
          result \in {"complete", "expired", "failed"}, b \in 0..MaxBytes :
            DownloadMediaInline(k, url, mediaModTsChanged, result, b)
    \/ RecoverFailedMedia
    \/ \E k \in MediaKeys, freshUrl \in {"null", "valid"},
          response \in MediaResponses, b \in 0..MaxBytes :
            RecoverRow(k, freshUrl, response, b)

\* C22: every media row with status complete has an object-store key, a
\* public URL and a file size greater than 0, whichever path set the status.
C22_CompleteRowsAreStored ==
    \A k \in MediaKeys :
        mediaTable[k].status = "complete" =>
            /\ mediaTable[k].r2ObjectKey # "null"
            /\ mediaTable[k].publicUrl # "null"
            /\ mediaTable[k].fileSizeBytes # NoSize
            /\ mediaTable[k].fileSizeBytes > 0

\* The same as long as no download was answered with an empty body
C22_CompleteRowsOfNonEmptyBodies == emptyBodies = 0 => C22_CompleteRowsAreStored

\* downloadOne called the CDN for the row k: the polled row had a URL that
\* was not expired
DownloadAttempted(k) ==
    /\ downloads[k].mediaUrlSource # "null"
    /\ ~isMediaUrlExpired(downloads[k].mediaUrlSource)

C24_PauseBetweenFiveAndFifteenMinutes ==
    /\ [](/\ currentPauseMs >= INITIAL_RATE_LIMIT_PAUSE_MS
          /\ currentPauseMs <= MAX_RATE_LIMIT_PAUSE_MS
          /\ remainingPauseMs <= MAX_RATE_LIMIT_PAUSE_MS)
    /\ [][\A k \in MediaKeys, response \in MediaResponses, b \in 0..MaxBytes :
            (DownloadOne(k, response, b) /\ DownloadAttempted(k)) =>
                /\ response = 429 =>
                        /\ remainingPauseMs' = currentPauseMs
                        /\ \/ currentPauseMs' = 2 * currentPauseMs
                           \/ /\ currentPauseMs' = MAX_RATE_LIMIT_PAUSE_MS
                              /\ 2 * currentPauseMs >= MAX_RATE_LIMIT_PAUSE_MS
                /\ response = 200 =>
                        currentPauseMs' = INITIAL_RATE_LIMIT_PAUSE_MS]_vars

\* Two downloads in flight have been answered, the later 429 found the
\* pause at 10 minutes and capped it at 15
C24_Witness ==
    /\ currentPauseMs = MAX_RATE_LIMIT_PAUSE_MS
    /\ remainingPauseMs = 2 * INITIAL_RATE_LIMIT_PAUSE_MS
    /\ Cardinality({k \in MediaKeys : downloads[k].pc = "finally"}) >= 2

\* C25: the number of downloads in flight is at least 0 and at most
\* WORKER_MEDIA_CONCURRENCY.
C25_ActiveDownloadsWithinConcurrency ==
    /\ activeDownloads >= 0
    /\ activeDownloads <= MediaConcurrency

\* As many downloads in flight as allowed while another row is queued
C25_Witness ==
    /\ activeDownloads = MediaConcurrency
    /\ \E k \in MediaKeys :
            /\ mediaTable[k].status = "pending_download"
            /\ downloads[k].pc = "idle"

\* C26: a media row that becomes expired while the worker keeps running is
\* eventually taken up by a recovery sweep and leaves the status expired
\* (the sweep sets it complete when the refetch and the download succeed).
C26_ExpiredRowEventuallyRecovered ==
    \A k \in MediaKeys :
        (mediaTable[k].status = "expired" /\ rpc = "done")
            ~> (mediaTable[k].status # "expired" \/ ~running)

(***************************************************************************)
(* Part H.  The scheduler (createScheduler: start, runInitialImport,       *)
(* runResourceLoop, stop) and the shutdown of main.  A replication cycle   *)
(* is a call of runReplicationCycle that is in flight until it returns or  *)
(* raises.                                                                 *)
(***************************************************************************)
maxWait == 60000

\* The awaits of runInitialImport: the resources whose cycles have returned
\* before the cycle of rs is called
ImportPredecessorsFirstOnly(rs) ==
    CASE rs = "Property" -> {}
      [] rs \in {"Member", "Office"} -> {"Property"}
      [] rs = "OpenHouse" -> {"Property"}
      [] OTHER -> {"OpenHouse"}

ImportPredecessors(rs) ==
    CASE rs = "Property" -> {}
      [] rs \in {"Member", "Office"} -> {"Property"}
      [] rs = "OpenHouse" -> {"Member", "Office"}
      [] OTHER -> {"OpenHouse"}

ScInit ==
    /\ isRunning = TRUE
    /\ completedRunExists \in BOOLEAN
    /\ startPc = "import"
    /\ importCycle = [rs \in Resources |-> "none"]
    /\ resourceStates = [rs \in Resources |-> [running |-> FALSE]]
    /\ loopPc = [rs \in Resources |-> "none"]
    /\ stopPc = "none"
    /\ stopElapsed = 0
    /\ lastCycleStart = [resource |-> "none", after |-> "none"]

\* The process is alive: it has neither exited nor been killed
Alive == startPc # "exited"

\* runInitialImport(): the next call of runReplicationCycle
ImportStartCycle(rs) ==
    /\ Alive
    /\ startPc = "import"
    /\ ~completedRunExists
    /\ importCycle[rs] = "none"
    /\ \A o \in ImportPredecessors(rs) : importCycle[o] = "ended"
    /\ importCycle' = [importCycle EXCEPT ![rs] = "running"]
    /\ UNCHANGED <<isRunning, completedRunExists, startPc, resourceStates,
                   loopPc, stopPc, stopElapsed>>
    /\ lastCycleStart' = [resource |-> rs, after |-> "import"]
    /\ UNCHANGED exceptSc

\* A cycle of runInitialImport returns, or raises: start() then rejects and
\* main exits the process
ImportCycleEnds(rs, raised) ==
    /\ Alive
    /\ importCycle[rs] = "running"
    /\ importCycle' = [importCycle EXCEPT ![rs] = IF raised THEN "raised" ELSE "ended"]
    /\ startPc' = IF raised THEN "exited" ELSE startPc
    /\ UNCHANGED <<isRunning, completedRunExists, resourceStates, loopPc,
                   stopPc, stopElapsed,
                   lastCycleStart>>
    /\ UNCHANGED exceptSc

\* runInitialImport has returned to start()
InitialImportCalled == startPc = "import"

InitialImportReturned ==
    /\ startPc = "import"
    /\ \/ completedRunExists
       \/ \A rs \in Resources : importCycle[rs] = "ended"

\* while (isRunning) of runResourceLoop
LoopContinuesAlways == TRUE

LoopContinues == isRunning

\* start() after runInitialImport: the five calls of runResourceLoop, each
\* running up to the first await of its first cycle; main then registers
\* the signal handlers
StartLoops ==
    /\ Alive
    /\ InitialImportReturned
    /\ startPc' = "started"
    /\ loopPc' = [rs \in Resources |-> IF LoopContinues THEN "cycle" ELSE "exited"]
    /\ resourceStates' = [rs \in Resources |-> [running |-> LoopContinues]]
    /\ UNCHANGED <<isRunning, completedRunExists, importCycle, stopPc,
                   stopElapsed>>
    /\ lastCycleStart' = IF LoopContinues
                       THEN [resource |-> "Lookup", after |-> "start"]
                       ELSE lastCycleStart
    /\ UNCHANGED exceptSc

\* runResourceLoop: the cycle returns or raises; finally clears the flag and
\* the loop goes to its cadence sleep, or ends when isRunning is false
LoopCycleEnds(rs, raised) ==
    /\ Alive
    /\ loopPc[rs] = "cycle"
    /\ resourceStates' = [resourceStates EXCEPT ![rs].running = FALSE]
    /\ loopPc' = [loopPc EXCEPT ![rs] = IF isRunning THEN "cadence" ELSE "exited"]
    /\ UNCHANGED <<isRunning, completedRunExists, startPc, importCycle,
                   stopPc, stopElapsed,
                   lastCycleStart>>
    /\ UNCHANGED exceptSc

\* runResourceLoop: the cadence sleep is over; the next cycle starts unless
\* the loop ends
CadenceSleepEnds(rs) ==
    /\ Alive
    /\ loopPc[rs] = "cadence"
    /\ IF LoopContinues
       THEN IF resourceStates[rs].running
            THEN UNCHANGED <<loopPc, resourceStates>>
            ELSE /\ loopPc' = [loopPc EXCEPT ![rs] = "cycle"]
                 /\ resourceStates' = [resourceStates EXCEPT ![rs].running = TRUE]
       ELSE /\ loopPc' = [loopPc EXCEPT ![rs] = "exited"]
            /\ UNCHANGED resourceStates
    /\ UNCHANGED <<isRunning, completedRunExists, startPc, importCycle,
                   stopPc, stopElapsed>>
    /\ lastCycleStart' = IF loopPc'[rs] = "cycle"
                       THEN [resource |-> rs, after |-> "cadence"]
                       ELSE lastCycleStart
    /\ UNCHANGED exceptSc

\* A signal arrives.  With the handlers registered shutdown() calls stop(),
\* which clears isRunning; before that the signal ends the process.
Shutdown ==
    /\ Alive
    /\ stopPc = "none"
    /\ IF startPc = "started"
       THEN /\ isRunning' = FALSE
            /\ stopPc' = "waiting"
            /\ stopElapsed' = 0
            /\ UNCHANGED startPc
       ELSE /\ startPc' = "exited"
            /\ UNCHANGED <<isRunning, stopPc, stopElapsed>>
    /\ UNCHANGED <<completedRunExists, importCycle, resourceStates, loopPc,
                   lastCycleStart>>
    /\ UNCHANGED exceptSc

\* stop(): one turn of the wait for the running cycles, then the stop of
\* the media downloader
StopWait ==
    /\ Alive
    /\ stopPc = "waiting"
    /\ IF /\ stopElapsed < maxWait
          /\ \E rs \in Resources : resourceStates[rs].running
       THEN /\ stopElapsed' = stopElapsed + ONE_SECOND
            /\ UNCHANGED <<stopPc, running>>
       ELSE /\ stopPc' = "stopped"
            /\ running' = FALSE
            /\ UNCHANGED stopElapsed
    /\ UNCHANGED <<isRunning, completedRunExists, startPc, importCycle,
                   resourceStates, loopPc,
                   lastCycleStart>>
    /\ UNCHANGED <<rlVars, cyVars, mdVars, suVars, fpVars, ppVars, dlRest,
                   clVars>>

\* shutdown(): after stop() the health server and the database are closed
\* and the process exits
ProcessExit ==
    /\ Alive
    /\ stopPc = "stopped"
    /\ startPc' = "exited"
    /\ UNCHANGED <<isRunning, completedRunExists, importCycle, resourceStates,
                   loopPc, stopPc, stopElapsed,
                   lastCycleStart>>
    /\ UNCHANGED exceptSc

ScNext ==
    \/ \E rs \in Resources : ImportStartCycle(rs)
    \/ \E rs \in Resources, raised \in BOOLEAN : ImportCycleEnds(rs, raised)
    \/ StartLoops
    \/ \E rs \in Resources, raised \in BOOLEAN : LoopCycleEnds(rs, raised)
    \/ \E rs \in Resources : CadenceSleepEnds(rs)
    \/ Shutdown
    \/ StopWait
    \/ ProcessExit

\* A cycle of rs is in flight
CycleInFlight(rs) == importCycle[rs] = "running" \/ loopPc[rs] = "cycle"

\* A cycle of rs starts in the step
CycleStarts(rs) ==
    \/ importCycle[rs] # "running" /\ importCycle'[rs] = "running"
    \/ loopPc[rs] # "cycle" /\ loopPc'[rs] = "cycle"

\* No cycle of rs has been started yet
NoCycleBefore(rs) == importCycle[rs] = "none" /\ loopPc[rs] = "none"

C29_NoNewCycleAndLateDownloaderStop ==
    [][/\ (stopPc # "none" \/ startPc = "exited") =>
            \A rs \in Resources : ~CycleStarts(rs)
       /\ (running /\ ~running') =>
            \/ \A rs \in Resources : ~CycleInFlight(rs)
            \/ stopElapsed >= maxWait]_vars

\* The downloader was stopped after 60 s with a cycle still in flight, the
\* loop of another resource having ended
C29_Witness ==
    /\ stopPc = "stopped"
    /\ ~running
    /\ stopElapsed = maxWait
    /\ \E rs \in Resources : CycleInFlight(rs)
    /\ \E rs \in Resources : loopPc[rs] = "exited"

\* C30: with no completed run at startup, the Property cycle has ended
\* before any Member or Office cycle starts, and the Member and the Office
\* cycles have ended before the OpenHouse cycle starts.
C30_InitialImportOrder ==
    ~completedRunExists =>
        /\ \A rs \in {"Member", "Office"} :
                ~NoCycleBefore(rs) => importCycle["Property"] = "ended"
        /\ ~NoCycleBefore("OpenHouse") =>
                /\ importCycle["Member"] = "ended"
                /\ importCycle["Office"] = "ended"

\* The OpenHouse cycle of the initial import is in flight
C30_Witness ==
    /\ ~completedRunExists
    /\ importCycle["OpenHouse"] = "running"

\* C28: after a shutdown signal a running cycle sees the flag at the next
\* record or page boundary and processes no further record (it then
\* finalizes its run as partial if a record had been committed).
C28_NoRecordProcessedAfterShutdown ==
    [][~isRunning => ~ProcessRecord]_vars

\* A cycle of rs has ended, by returning with any status or by raising,
\* and none is in flight
CycleEnded(rs) == ~NoCycleBefore(rs) /\ ~CycleInFlight(rs)

\* A signal has arrived: stop() was called, or the process was ended
\* before the handlers were registered
ShutdownRequested ==
    \/ stopPc # "none"
    \/ startPc = "exited" /\ \A rs \in Resources : importCycle[rs] # "raised"

\* C31: a cycle that ends with status failed, or that raises, does not stop
\* the scheduler: as long as no shutdown is requested another cycle of the
\* same resource is eventually started.
C31_AnotherCycleAfterFailure ==
    \A rs \in Resources :
        CycleEnded(rs) ~> (CycleInFlight(rs) \/ ShutdownRequested)

\* The same for the cycles of runResourceLoop only
C31_LoopStartsAnotherCycle ==
    \A rs \in Resources :
        (loopPc[rs] = "cadence") ~> (loopPc[rs] = "cycle" \/ ShutdownRequested)

(***************************************************************************)
(* Part I.  The daily cleanup job (createScheduler: runCleanupJob and the  *)
(* loop that calls it) beside the processing of Property records.  The     *)
(* processing of one record is one step here; Part F has its statements.   *)
(***************************************************************************)

\* Bound: listing keys
NumListings == 2

\* Bound: the days the clock advances in one step
DaysPerTick == 15

\* Bound: the last day
MaxToday == 45

\* Bound: statements of the cleanup job that may raise
MaxCleanupFaults == 1

\* 30 * 24 * 60 * 60 * 1000 ms, in days
THIRTY_DAYS == 30

ListingKeys == 1..NumListings

\* The tables runCleanupJob deletes from, in the order of its statements
CleanupTables ==
    <<"propertyChangeLog", "statusHistory", "priceHistory", "media", "rooms",
      "unitTypes", "rawResponses", "properties">>

\* The tables whose rows go with the listing row (ON DELETE cascade)
CascadeTables == {"media", "rooms", "unitTypes"}

\* deleted_at IS NULL
NoDate == Null - 1

NoProperty == [present |-> FALSE, mlgCanView |-> FALSE, deletedAt |-> NoDate]

ClInit ==
    /\ listings = [k \in ListingKeys |-> NoProperty]
    /\ tableRows = [k \in ListingKeys |-> {}]
    /\ storedObjects = [k \in ListingKeys |-> FALSE]
    /\ today = 0
    /\ cleanup = [pc |-> "sleeping", selected |-> {}, remaining |-> {},
                  stmt |-> 1, outcome |-> "none", faults |-> 0]

\* processPropertyRecord for a record with MlgCanView true, in replication
\* mode.  watchedChanged: recordDiffs found changes (existing rows only);
\* withMedia: the photos changed and media was downloaded inline.  The
\* upsert sets the columns of transformProperty, deleted_at is not one.
ProcessVisibleListing(k, watchedChanged, withMedia) ==
    /\ watchedChanged => listings[k].present
    /\ listings' = [listings EXCEPT ![k].present = TRUE,
                                    ![k].mlgCanView = TRUE]
    /\ tableRows' =
         [tableRows EXCEPT ![k] =
            @ \cup {"rooms", "unitTypes", "rawResponses"}
              \cup (IF watchedChanged
                    THEN {"propertyChangeLog", "statusHistory", "priceHistory"}
                    ELSE {})
              \cup (IF withMedia THEN {"media"} ELSE {})]
    /\ storedObjects' = [storedObjects EXCEPT ![k] = @ \/ withMedia]
    /\ UNCHANGED <<today, cleanup>>
    /\ UNCHANGED exceptCl

\* handleSoftDelete in replication mode.  objectsDeleted is whether
\* batchDeleteFromR2 succeeded (its failure is caught and logged).
HandleSoftDelete(k, objectsDeleted) ==
    /\ objectsDeleted \/ (listings[k].present /\ "media" \in tableRows[k])
    /\ IF ~listings[k].present
       THEN UNCHANGED <<listings, tableRows, storedObjects>>
       ELSE /\ listings' = [listings EXCEPT ![k].mlgCanView = FALSE,
                                            ![k].deletedAt = today]
            /\ tableRows' = [tableRows EXCEPT ![k] =
                                (@ \cup {"statusHistory"}) \ {"media"}]
            /\ storedObjects' =
                 [storedObjects EXCEPT ![k] =
                    IF "media" \in tableRows[k] /\ objectsDeleted
                    THEN FALSE ELSE @]
    /\ UNCHANGED <<today, cleanup>>
    /\ UNCHANGED exceptCl

\* The where clause of runCleanupJob's query
SelectedForCleanup(row) ==
    /\ row.present
    /\ row.deletedAt # NoDate
    /\ row.deletedAt < today - THIRTY_DAYS

\* The sleep of the cleanup loop is over: runCleanupJob computes
\* thirtyDaysAgo and runs its query
RunCleanupJob ==
    /\ isRunning
    /\ cleanup.pc = "sleeping"
    /\ LET toDelete == {k \in ListingKeys : SelectedForCleanup(listings[k])}
       IN  cleanup' =
             [cleanup EXCEPT
                !.selected = toDelete,
                !.remaining = toDelete,
                !.stmt = 1,
                !.pc = IF toDelete = {} THEN "sleeping" ELSE "deleting",
                !.outcome = IF toDelete = {} THEN "nothing" ELSE "running"]
    /\ UNCHANGED <<listings, tableRows, storedObjects, today>>
    /\ UNCHANGED exceptCl

\* runCleanupJob: the next delete statement of the loop over the keys
CleanupDelete ==
    /\ cleanup.pc = "deleting"
    /\ LET key  == CHOOSE k \in cleanup.remaining :
                        \A o \in cleanup.remaining : k <= o
           tbl  == CleanupTables[cleanup.stmt]
           rest == cleanup.remaining \ {key}
       IN  /\ IF tbl = "properties"
              THEN /\ listings' = [listings EXCEPT ![key] = NoProperty]
                   /\ tableRows' = [tableRows EXCEPT ![key] = @ \ CascadeTables]
              ELSE /\ tableRows' = [tableRows EXCEPT ![key] = @ \ {tbl}]
                   /\ UNCHANGED listings
           /\ cleanup' =
                IF cleanup.stmt < Len(CleanupTables)
                THEN [cleanup EXCEPT !.stmt = @ + 1]
                ELSE IF rest # {}
                THEN [cleanup EXCEPT !.remaining = rest, !.stmt = 1]
                ELSE [cleanup EXCEPT !.remaining = {}, !.stmt = 1,
                                     !.pc = "sleeping", !.outcome = "complete"]
    /\ UNCHANGED <<storedObjects, today>>
    /\ UNCHANGED exceptCl

\* runCleanupJob: a delete statement raises; the job logs the error and
\* returns
CleanupRaises ==
    /\ cleanup.pc = "deleting"
    /\ cleanup.faults < MaxCleanupFaults
    /\ cleanup' = [cleanup EXCEPT !.pc = "sleeping", !.outcome = "failed",
                                  !.faults = @ + 1]
    /\ UNCHANGED <<listings, tableRows, storedObjects, today>>
    /\ UNCHANGED exceptCl

\* Time passes
DayPasses ==
    /\ today + DaysPerTick <= MaxToday
    /\ today' = today + DaysPerTick
    /\ UNCHANGED <<listings, tableRows, storedObjects, cleanup>>
    /\ UNCHANGED exceptCl

ClNext ==
    \/ \E k \in ListingKeys, watchedChanged \in BOOLEAN, withMedia \in BOOLEAN :
            ProcessVisibleListing(k, watchedChanged, withMedia)
    \/ \E k \in ListingKeys, objectsDeleted \in BOOLEAN :
            HandleSoftDelete(k, objectsDeleted)
    \/ RunCleanupJob
    \/ CleanupDelete
    \/ CleanupRaises
    \/ DayPasses

\* The cleanup job completes in the step: its last delete statement has run
CleanupCompletes == cleanup.pc = "deleting" /\ cleanup'.outcome = "complete"

\* C32: after the cleanup job has run, for every listing whose soft-delete
\* marker was older than 30 days there remains no listing row, no rooms or
\* unitTypes row, no media row, no stored media object, no raw-archive row
\* and no history row for its key.
C32_CleanupRemovesEverything ==
    [][\A k \in ListingKeys :
        (CleanupCompletes /\ k \in cleanup.selected) =>
            /\ ~listings'[k].present
            /\ tableRows'[k] = {}
            /\ ~storedObjects'[k]]_vars

\* C39: the cleanup job never hard-deletes a listing that is currently
\* visible, however long ago it was hidden.
C39_VisibleListingNotDeleted ==
    [][\A k \in ListingKeys :
        (listings[k].present /\ listings[k].mlgCanView) =>
            listings'[k].present]_vars

(***************************************************************************)
(* Further claims about the replication cycle (Part B)                     *)
(***************************************************************************)

\* processRecord returns in the step, for a record that is upserted
\* (MlgCanView not false)
UpsertReturns ==
    /\ ProcessRecord
    /\ cycle'.totalRecords = cycle.totalRecords + 1
    /\ Head(cycle.page).canView

\* A row with the record's key existed before the record was processed
RowExisted == rows[Head(cycle.page).key].present

\* C33: for every resource type, OpenHouse and Lookup included, a processed
\* record is counted as inserted if and only if no row with its key existed
\* before it was processed, and as updated if and only if such a row
\* existed.
C33_InsertedIffNewUpdatedIffExisting ==
    [][UpsertReturns =>
        /\ (cycle'.inserted = cycle.inserted + 1) <=> ~RowExisted
        /\ (cycle'.updated = cycle.updated + 1) <=> RowExisted]_vars

\* The same for the resources whose processors look the row up first
C33_PropertyMemberOfficeCounts ==
    [][(UpsertReturns /\ resource \in {"Property", "Member", "Office"}) =>
        /\ (cycle'.inserted = cycle.inserted + 1) <=> ~RowExisted
        /\ (cycle'.updated = cycle.updated + 1) <=> RowExisted]_vars

\* The dedup check skips the record at the head of the page (lines 110-113)
DedupSkips ==
    /\ ProcessRecord
    /\ ~cycle.dedupNull
    /\ Head(cycle.page).key \in cycle.dedupSet

\* C37: the dedup check skips a record only if its incoming
\* ModificationTimestamp equals the cycle's HWM; a record whose key is in the
\* dedup set but which arrives with a newer ModificationTimestamp is
\* processed.
C37_DedupSkipsOnlyAtHwm ==
    [][DedupSkips => Head(cycle.page).ts = cycle.hwm]_vars

\* The records run i handed to a processor that raised
RaisedRecords(i) ==
    {c \in observed[i].received :
        c[1] \in observed[i].processedKeys /\ c \notin observed[i].committed}

\* C38: the hwmEnd recorded for a cycle never advances beyond the
\* modificationTs of a record the cycle received and whose processing raised
\* (so that a later cycle's query, ModificationTimestamp ge hwm, returns the
\* record again).
C38_HwmEndNotBeyondRaisedRecord ==
    \A i \in OwnRuns :
        Finalized(i) => \A c \in RaisedRecords(i) : runs[i].hwmEnd <= c[2]

\* C40: for each resource the HWM never moves backwards: every finalized run
\* has hwmEnd >= hwmStart, the hwmStart of each cycle is >= the hwmStart of
\* every earlier cycle of the resource, and once a cycle has run in
\* replication mode no later cycle of the resource runs in initial-import
\* mode.  (A null HWM is below every timestamp.)
C40_HwmNeverMovesBackwards ==
    \A i \in OwnRuns :
        /\ Finalized(i) => runs[i].hwmEnd >= runs[i].hwmStart
        /\ \A j \in OwnRuns :
              j < i => /\ runs[i].hwmStart >= runs[j].hwmStart
                       /\ runs[j].runMode = "replication" =>
                              runs[i].runMode = "replication"

\* C40 witness: three cycles of the resource, the first an initial import,
\* the second a finalized replication cycle that moved the HWM forward, the
\* third started from the second's hwmEnd.
C40_Witness ==
    \E i, j, l \in OwnRuns :
        /\ i < j /\ j < l
        /\ runs[i].runMode = "initial_import" /\ Finalized(i)
        /\ runs[j].runMode = "replication" /\ Finalized(j)
        /\ runs[j].hwmEnd > runs[j].hwmStart
        /\ runs[l].runMode = "replication"
        /\ runs[l].hwmStart = runs[j].hwmEnd

(***************************************************************************)
(* Further claims about the media bandwidth admission (Part C)             *)
(***************************************************************************)

\* A step of waitForMediaSlot for downloader d
WaitForMediaSlotStep(d) == MediaCall(d) \/ MediaWake(d)

\* recordMediaDownload runs in the step: a download returned 2xx
DownloadRecorded == \E d \in Downloaders, bytes \in DownloadSizes : MediaDownloaded(d, bytes)

\* Only a recorded download adds to the series, and a failed download
\* leaves it as it is
OnlyDownloadsAddBytes ==
    /\ ~DownloadRecorded =>
          /\ Len(mediaDownloads') <= Len(mediaDownloads)
          /\ SumBytes(mediaDownloads') <= SumBytes(mediaDownloads)
    /\ \A d \in Downloaders :
          MediaDownloadFailed(d) => mediaDownloads' = mediaDownloads

InlineDownloadCalled(existingRow, url, mediaModTsChanged) ==
    /\ NeedsDownload(existingRow, mediaModTsChanged)
    /\ ~AlreadyInR2(existingRow)
    /\ url = "valid"

\* C35: when a listing's photos have changed, every incoming media item
\* whose MediaModificationTimestamp differs from the stored value is
\* downloaded again so that its stored bytes are replaced, while items whose
\* timestamp is unchanged (and whose row is complete) are not downloaded.
C35_ChangedItemsDownloadedAgain ==
    [][\A k \in MediaKeys, mediaModTsChanged \in BOOLEAN,
          result \in {"complete", "expired", "failed"}, b \in 0..MaxBytes :
        (/\ DownloadMediaInline(k, "valid", mediaModTsChanged, result, b)
         /\ mediaTable[k].status # "absent") =>
            /\ mediaModTsChanged =>
                  /\ InlineDownloadCalled(mediaTable[k], "valid", mediaModTsChanged)
                  /\ result = "complete" =>
                        mediaTable'[k] = CompleteRow(mediaTable[k], "valid", b)
            /\ (~mediaModTsChanged /\ mediaTable[k].status = "complete") =>
                  /\ ~InlineDownloadCalled(mediaTable[k], "valid", mediaModTsChanged)
                  /\ mediaTable'[k] = mediaTable[k]]_vars

\* The same for the rows that have no stored object yet
C35_ChangedItemsWithoutObjectDownloaded ==
    [][\A k \in MediaKeys, mediaModTsChanged \in BOOLEAN,
          result \in {"complete", "expired", "failed"}, b \in 0..MaxBytes :
        (/\ DownloadMediaInline(k, "valid", mediaModTsChanged, result, b)
         /\ mediaTable[k].status # "absent"
         /\ ~AlreadyInR2(mediaTable[k])) =>
            /\ mediaModTsChanged =>
                  /\ InlineDownloadCalled(mediaTable[k], "valid", mediaModTsChanged)
                  /\ result = "complete" =>
                        mediaTable'[k] = CompleteRow(mediaTable[k], "valid", b)
            /\ (~mediaModTsChanged /\ mediaTable[k].status = "complete") =>
                  /\ ~InlineDownloadCalled(mediaTable[k], "valid", mediaModTsChanged)
                  /\ mediaTable'[k] = mediaTable[k]]_vars

(***************************************************************************)
(* Further claims about the rate limiter (Part A): the hourly and daily    *)
(* caps, with the series loaded from the request log at startup            *)
(***************************************************************************)

\* Model bounds: how far below a cap the loaded history may be, the time after
\* the start at which the loaded hour entries leave the 1-hour window (the day
\* entries leave the 24-hour window at twice that), and how long after the
\* first hour the clock runs
SeedSlack == 1
SeedExpiresAfter == 3000
SeededHorizon == 2000
MaxSeededNow == ONE_HOUR + SeededHorizon

\* The timestamps of the logged requests, relative to the start at time 0
HourSeedAt == SeedExpiresAfter - ONE_HOUR
DaySeedAt == 2 * SeedExpiresAfter - ONE_DAY
StaleSeedAt == 0 - ONE_DAY

\* n logged requests with the same timestamp
LoggedRequests(n, timestamp) == [i \in 1..n |-> timestamp]

\* The request logs the limiter is started with: one stale request followed by
\* requests of the last hour or of the last day, their number just below a
\* soft cap, at it, or at the hard cap
RequestLogs ==
    {<<StaleSeedAt>> \o LoggedRequests(n, HourSeedAt) :
        n \in {PerHourSoft - SeedSlack, PerHourSoft, PerHourHard}}
    \cup {<<StaleSeedAt>> \o LoggedRequests(n, DaySeedAt) :
        n \in {PerDaySoft - SeedSlack, PerDaySoft, PerDayHard}}

\* initializeFromHistory, the API series: the logged requests of the last 24 h
ApiRequestsFromHistory(apiRequestTimestamps, t) ==
    FilterNewer(apiRequestTimestamps, t - ONE_DAY)

RLSeededInit ==
    /\ now = 0
    /\ \E log \in RequestLogs : apiRequests = ApiRequestsFromHistory(log, 0)
    /\ apiSlotLock = Resolved
    /\ pc = [c \in Callers |-> "idle"]
    /\ previous = [c \in Callers |-> Resolved]
    /\ wakeAt = [c \in Callers |-> 0]
    /\ slept = [c \in Callers |-> FALSE]
    /\ lastCheckBy = 0

\* The clock advances to the time a sleeping caller's timer fires
SeededTick ==
    /\ \E t \in {wakeAt[c] : c \in {d \in Callers : pc[d] = "sleeping"}} :
         /\ t > now
         /\ t <= MaxSeededNow
         /\ now' = t
    /\ UNCHANGED <<apiRequests, apiSlotLock, pc, previous, wakeAt, slept, lastCheckBy>>
    /\ UNCHANGED exceptRL

RLSeededNext ==
    \/ \E c \in Callers : Enter(c)
    \/ \E c \in Callers : Acquire(c)
    \/ \E c \in Callers : Wake(c)
    \/ \E c \in Callers : Return(c)
    \/ SeededTick

\* The number of entries of the series in the 1-hour and in the 24-hour window
\* ending at time t
HourCount(reqs, t) == Len(FilterNewer(reqs, t - ONE_HOUR))
DayCount(reqs, t) == Len(FilterNewer(reqs, t - ONE_DAY))

\* waitForApiSlot returns to caller c in this step: the request is recorded
Admitted(c) == pc[c] # "done" /\ pc'[c] = "done"

\* C36: while the 1-hour window holds 6,000 entries or more, or the 24-hour
\* window 35,000 or more, waitForApiSlot admits no caller; so an admission
\* leaves at most 6,000 entries in the 1-hour window and at most 35,000 in the
\* 24-hour window, and a window that holds more than its soft cap holds loaded
\* entries only.
C36_NoAdmissionAtSoftCap ==
    /\ [](/\ HourCount(apiRequests, now) > PerHourSoft =>
               RecordedSinceStart(FilterNewer(apiRequests, now - ONE_HOUR)) = <<>>
          /\ DayCount(apiRequests, now) > PerDaySoft =>
               RecordedSinceStart(FilterNewer(apiRequests, now - ONE_DAY)) = <<>>)
    /\ [][\A c \in Callers :
            Admitted(c) =>
              /\ HourCount(apiRequests, now) < PerHourSoft
              /\ DayCount(apiRequests, now) < PerDaySoft
              /\ HourCount(apiRequests', now') <= PerHourSoft
              /\ DayCount(apiRequests', now') <= PerDaySoft]_vars

\* C36 witness: an admission has brought the 1-hour window to 6,000 entries
\* and the next caller sleeps the pause of the hourly soft cap.
C36_Witness ==
    /\ HourCount(apiRequests, now) = PerHourSoft
    /\ RecordedSinceStart(apiRequests) # <<>>
    /\ \E c \in Callers : pc[c] = "sleeping" /\ wakeAt[c] = now + SoftHourPauseMs

(***************************************************************************)
(* Specifications.  Each runs one part; the other parts stay as            *)
(* constructed.                                                            *)
(***************************************************************************)

\* No cycle has run and none runs
CyIdle == CyInit /\ resource = "Property" /\ runs = <<>>

DlIdle == DlInit /\ mediaTable = [k \in MediaKeys |-> NoMedia]

ScIdle == ScInit /\ ~completedRunExists

\* start() has returned with completed runs stored: the five loops are in
\* their first cycle and the signal handlers are registered
ScStarted ==
    /\ isRunning = TRUE
    /\ completedRunExists = TRUE
    /\ startPc = "started"
    /\ importCycle = [rs \in Resources |-> "none"]
    /\ resourceStates = [rs \in Resources |-> [running |-> TRUE]]
    /\ loopPc = [rs \in Resources |-> "cycle"]
    /\ stopPc = "none"
    /\ stopElapsed = 0
    /\ lastCycleStart = [resource |-> "Lookup", after |-> "start"]

\* The replication cycle of one resource
InitCycle == CyInit /\ RLInit /\ MdInit /\ SuIdle /\ FpInit /\ PpInit /\ DlIdle /\ ScIdle /\ ClInit

SpecCycle == InitCycle /\ [][CyNext]_vars

\* The rate limiter under concurrent callers
InitRL == RLInit /\ CyIdle /\ MdInit /\ SuIdle /\ FpInit /\ PpInit /\ DlIdle /\ ScIdle /\ ClInit

SpecRL == InitRL /\ [][RLNext]_vars

\* Media downloads under concurrent downloaders
InitMedia == MdInit /\ RLInit /\ CyIdle /\ SuIdle /\ FpInit /\ PpInit /\ DlIdle /\ ScIdle /\ ClInit

SpecMedia == InitMedia /\ [][MdNext]_vars

\* The startup of the worker
InitStartup == SuInit /\ RLInit /\ CyIdle /\ MdInit /\ FpInit /\ PpInit /\ DlIdle /\ ScIdle /\ ClInit

SpecStartup == InitStartup /\ [][SuNext]_vars

\* One call of fetchPage
InitFetch == FpInit /\ RLInit /\ CyIdle /\ MdInit /\ SuIdle /\ PpInit /\ DlIdle /\ ScIdle /\ ClInit

SpecFetch == InitFetch /\ [][FpNext]_vars

\* The records of one listing key, processed one after the other
InitProperty == PpInit /\ RLInit /\ CyIdle /\ MdInit /\ SuIdle /\ FpInit /\ DlIdle /\ ScIdle /\ ClInit

SpecProperty == InitProperty /\ [][PpNext]_vars

\* The background downloader over queued rows; no recovery, no inline
\* download
InitDownloader ==
    /\ DlInit /\ RLInit /\ CyIdle /\ MdInit /\ SuIdle /\ FpInit /\ PpInit
    /\ ScIdle /\ ClInit
    /\ \A k \in MediaKeys : mediaTable[k].status = "pending_download"

SpecDownloader == InitDownloader /\ [][DlNext]_vars

\* One media row under the background downloader, the recovery at startup
\* and the inline download
InitMediaRows ==
    /\ DlInit /\ RLInit /\ CyIdle /\ MdInit /\ SuIdle /\ FpInit /\ PpInit
    /\ ScIdle /\ ClInit
    /\ \A k \in MediaKeys \ {1} : mediaTable[k] = NoMedia

SpecMediaRows == InitMediaRows /\ [][MrNext]_vars

\* The steps of the worker itself: the event loop runs every continuation
\* that is ready, so the loop, the downloads in flight and the recovery go
\* on; stop() and the records of the feed are not the worker's to decide
MrWorkerNext ==
    \/ \E S \in SUBSET MediaKeys : LoopPoll(S)
    \/ \E k \in MediaKeys : LoopStartDownload(k)
    \/ LoopStep
    \/ \E k \in MediaKeys, response \in MediaResponses, b \in 0..MaxBytes :
            DownloadOne(k, response, b)
    \/ \E k \in MediaKeys : DownloadOneFinally(k)
    \/ DlTick
    \/ RecoverFailedMedia
    \/ \E k \in MediaKeys, freshUrl \in {"null", "valid"},
          response \in MediaResponses, b \in 0..MaxBytes :
            RecoverRow(k, freshUrl, response, b)

SpecMediaRowsFair == SpecMediaRows /\ WF_vars(MrWorkerNext)

\* The scheduler from start() to the exit of the process
InitScheduler ==
    /\ ScInit /\ RLInit /\ CyIdle /\ MdInit /\ SuIdle /\ FpInit /\ PpInit
    /\ DlIdle /\ ClInit

SpecScheduler == InitScheduler /\ [][ScNext]_vars

\* A replication cycle of the Property loop and the shutdown signal
InitCycleShutdown ==
    /\ CyInit /\ resource = "Property" /\ runs = <<>>
    /\ RLInit /\ MdInit /\ SuIdle /\ FpInit /\ PpInit /\ DlIdle /\ ScStarted
    /\ ClInit

CycleShutdownNext ==
    \/ \E k \in Keys, cv \in BOOLEAN : FeedModify(k, cv)
    \/ FeedTick
    \/ StartCycle
    \/ FetchPageOk
    \/ FetchPageRaise
    \/ ProcessRecord
    \/ Finalize
    \/ Crash
    \/ Shutdown

SpecCycleShutdown == InitCycleShutdown /\ [][CycleShutdownNext]_vars

\* The steps of the scheduler for one resource: a cycle that was called
\* ends, and a sleep that was started is over
ScResourceStep(rs) ==
    \/ ImportStartCycle(rs)
    \/ \E raised \in BOOLEAN : ImportCycleEnds(rs, raised)
    \/ \E raised \in BOOLEAN : LoopCycleEnds(rs, raised)
    \/ CadenceSleepEnds(rs)

SpecSchedulerFair ==
    /\ SpecScheduler
    /\ WF_vars(StartLoops)
    /\ \A rs \in Resources : WF_vars(ScResourceStep(rs))

\* The cleanup job beside the records of the Property feed
InitCleanup ==
    /\ ClInit /\ RLInit /\ CyIdle /\ MdInit /\ SuIdle /\ FpInit /\ PpInit
    /\ DlIdle /\ ScIdle

SpecCleanup == InitCleanup /\ [][ClNext]_vars

\* The rate limiter started from a request log
InitSeeded ==
    /\ RLSeededInit /\ CyIdle /\ MdInit /\ SuIdle /\ FpInit /\ PpInit /\ DlIdle
    /\ ScIdle /\ ClInit

SpecRLSeeded == InitSeeded /\ [][RLSeededNext]_vars

====
